---- MODULE Spec2Model ----
(***************************************************************************)
(* A model of oscrypto/_osx/public_key.py: the PrivateKey / PublicKey /    *)
(* Certificate wrappers around native Security-framework references, the   *)
(* loaders, and the encrypt / decrypt / sign / verify entry points.        *)
(*                                                                         *)
(* Every entry point is synchronous, so each is one action.  An action     *)
(* threads a call context c through the statements of the function:        *)
(*   c.hs        the wrapper objects (the Python heap the caller sees)     *)
(*   c.heap      the native references handed out so far, with the number  *)
(*               of CFRelease calls made on each                           *)
(*   c.calls     the native calls this entry point made, in order          *)
(*   c.created   the transient native objects it created, in order         *)
(*   c.released  the transient native objects it released, in order        *)
(*   c.attrs     the attributes set on the transform so far                *)
(*   c.exc       the exception that ended it ("none": it returned)         *)
(*   c.val       the byte string it computed                               *)
(*   c.flag      the boolean a verify transform produced                   *)
(***************************************************************************)
EXTENDS Integers, Sequences, FiniteSets, TLC

VARIABLES handles, heap, last, ret, held, threads, pool

vars == <<handles, heap, last, ret, held, threads, pool>>

(***************************************************************************)
(* Bounds of the model.                                                    *)
(***************************************************************************)
\* wrapper objects a behaviour loads (a Certificate counts once, with the
\* PublicKey it derives)
MaxHandles == 1

(***************************************************************************)
(* Structured key metadata (asn1crypto PublicKeyInfo / PrivateKeyInfo).    *)
(* kp names the key material: the private and the public structure of one  *)
(* source key carry the same kp.                                           *)
(***************************************************************************)
KeyStruct(alg, ctype, curve, halgo, bits, kp) ==
    [algorithm |-> alg, curve_type |-> ctype, curve |-> curve,
     hash_algo |-> halgo, bit_size |-> bits, byte_size |-> (bits + 7) \div 8,
     kp |-> kp]

RsaKey      == KeyStruct("rsa", "", "", "", 352, 1)
RsaSmallKey == KeyStruct("rsa", "", "", "", 104, 2)
DsaKey      == KeyStruct("dsa", "", "", "sha1", 160, 3)
DsaSha2Key  == KeyStruct("dsa", "", "", "sha2", 384, 4)
EcKey       == KeyStruct("ec", "named", "secp256r1", "", 256, 5)
Ec384Key    == KeyStruct("ec", "named", "secp384r1", "", 384, 6)
Ec521Key    == KeyStruct("ec", "named", "secp521r1", "", 521, 7)
EcOtherKey  == KeyStruct("ec", "named", "secp224r1", "", 224, 8)
EcSpecKey   == KeyStruct("ec", "specified", "", "", 256, 9)

\* the structures the loaders are handed
AllKeys == {RsaKey, RsaSmallKey, DsaKey, DsaSha2Key, EcKey, Ec384Key,
            Ec521Key, EcOtherKey, EcSpecKey}
\* the structures the operation pipeline is exercised with
OpKeys == {RsaKey, DsaKey, EcKey}

Asn1(type, k) == [type |-> type, key |-> k]

HashNames == {"md5", "sha1", "sha224", "sha256", "sha384", "sha512"}
BadHashNames == {"sha3", "ripemd160"}

(***************************************************************************)
(* Byte strings.  A byte string is a message with the encodings applied to *)
(* it, innermost first; mut = 1 marks bytes altered after that encoding.   *)
(***************************************************************************)
Layer(op, k, pad, dig, num, mut) ==
    [op |-> op, kp |-> k.kp, bits |-> k.bit_size, pad |-> pad, dig |-> dig,
     num |-> num, mut |-> mut]

Raw(m) == [msg |-> m, enc |-> <<>>]
NoBytes == Raw(<<>>)
Push(v, l) == [v EXCEPT !.enc = Append(@, l)]
Pop(v) == [v EXCEPT !.enc = SubSeq(@, 1, Len(@) - 1)]
Top(v) == v.enc[Len(v.enc)]
BLen(v) == IF v.enc = <<>> THEN Len(v.msg) ELSE (Top(v).bits + 7) \div 8

(***************************************************************************)
(* Wrapper objects.  ref is sec_key_ref (keys) or sec_certificate_ref      *)
(* (certificates), 0 for None.  For a Certificate, pk tells the state of   *)
(* the derived PublicKey object: "none" (never derived), "cached" (held in *)
(* _public_key), "detached" (_public_key reset to None by __del__, the     *)
(* object possibly still held by the caller); pkref is its sec_key_ref.    *)
(***************************************************************************)
Wrapper(cls, ref, k) == [cls |-> cls, ref |-> ref, asn1 |-> k, pk |-> "none", pkref |-> 0]

\* a target names an object the caller holds: wrapper i itself, or the
\* PublicKey that certificate i derived
Target(i, sub) == [i |-> i, sub |-> sub]
NoTarget == Target(0, "self")

View(hs, t) ==
    IF t.sub = "self" THEN hs[t.i]
    ELSE [cls |-> "PublicKey", ref |-> hs[t.i].pkref, asn1 |-> hs[t.i].asn1,
          pk |-> "none", pkref |-> 0]

NoView == Wrapper("none", 0, KeyStruct("", "", "", "", 0, 0))

Targets(hs) ==
    {Target(i, "self") : i \in 1..Len(hs)} \cup
    {Target(i, "pk") : i \in {j \in 1..Len(hs) : hs[j].cls = "Certificate" /\ hs[j].pk # "none"}}

(***************************************************************************)
(* Call contexts.                                                          *)
(***************************************************************************)
NoAttrs == [dig |-> "", num |-> 0, pad |-> ""]

\* a structure a PKCS#12 file does not hold
NoInfo == Asn1("", NoView.asn1)

\* what a call returns besides bytes: the value of an attribute read (str,
\* num), or the bundle of load_pkcs12 (the positions of the handles it
\* returns among the wrappers, 0 for None) with what parse_pkcs12 decoded
NoGot ==
    [str |-> "", num |-> 0, key |-> 0, cert |-> 0, extra |-> <<>>,
     parsed |-> <<NoInfo, NoInfo, <<>> >>]

\* prims lists the calls made to the padding primitive, each with the number
\* of native calls made before it
Ctx(hs, hp) ==
    [hs |-> hs, heap |-> hp, calls |-> <<>>, created |-> <<>>, released |-> <<>>,
     attrs |-> NoAttrs, exc |-> "none", val |-> NoBytes, flag |-> FALSE,
     got |-> NoGot, prims |-> <<>>, keyargs |-> <<>>]

Call(fn, key, obj, attr, val, num) ==
    [fn |-> fn, key |-> key, obj |-> obj, attr |-> attr, val |-> val, num |-> num]

NativeCall(c, call) ==
    IF c.exc = "none" THEN [c EXCEPT !.calls = Append(@, call)] ELSE c

Raise(c, e) == IF c.exc = "none" THEN [c EXCEPT !.exc = e] ELSE c

\* a native constructor that returned the non-null object `name`
Created(c, name) ==
    IF c.exc = "none" THEN [c EXCEPT !.created = Append(@, name)] ELSE c

InSeq(x, s) == \E n \in 1..Len(s) : s[n] = x
Count(x, s) == Cardinality({n \in 1..Len(s) : s[n] = x})

\* _core_foundation.handle_cf_error / _security.handle_sec_error: a native
\* error reference or status becomes an OSError
handle_cf_error(c, failed) == IF failed THEN Raise(c, "OSError") ELSE c
handle_sec_error(c, failed) == IF failed THEN Raise(c, "OSError") ELSE c

\* CFHelpers.cf_data_from_bytes / cf_number_from_integer / cf_dictionary_from_pairs
CFCreate(c, fn, name) == Created(NativeCall(c, Call(fn, -1, name, "", "", 0)), name)

\* CoreFoundation.CFRelease of a transient object
CFReleaseObj(c, name) ==
    [c EXCEPT !.calls = Append(@, Call("CFRelease", -1, name, "", "", 0)),
              !.released = Append(@, name)]

\* CoreFoundation.CFRelease of a key or certificate reference
CFReleaseRef(c, r) ==
    [c EXCEPT !.calls = Append(@, Call("CFRelease", r, "", "", "", 0)),
              !.heap[r].rel = @ + 1]

RECURSIVE Finally_Reversed(_, _)
Finally_Reversed(c, names) ==
    IF names = <<>> THEN c
    ELSE LET rest == Finally_Reversed(c, Tail(names))
         IN  IF InSeq(Head(names), c.created) THEN CFReleaseObj(rest, Head(names)) ELSE rest

\* a `finally:` block of `if x: CFRelease(x)` statements, in source order;
\* it runs whether or not the body raised
RECURSIVE Finally(_, _)
Finally(c, names) ==
    IF names = <<>> THEN c
    ELSE Finally(IF InSeq(Head(names), c.created) THEN CFReleaseObj(c, Head(names)) ELSE c,
                 Tail(names))

\* a native constructor that returned the new key or certificate reference
Alloc(c, kind, k, class) ==
    [c EXCEPT !.heap = Append(@, [kind |-> kind, rel |-> 0, key |-> k, class |-> class])]

(***************************************************************************)
(* PrivateKey / PublicKey                                                  *)
(***************************************************************************)
SetRef(c, t, r) ==
    IF t.sub = "self" THEN [c EXCEPT !.hs[t.i].ref = r]
    ELSE [c EXCEPT !.hs[t.i].pkref = r]

PrivateKey_del_NoReset(c, t) ==
    IF View(c.hs, t).ref # 0 THEN CFReleaseRef(c, View(c.hs, t).ref) ELSE c

\* PrivateKey.__del__ (inherited by PublicKey)
PrivateKey_del(c, t) ==
    IF View(c.hs, t).ref # 0
    THEN SetRef(CFReleaseRef(c, View(c.hs, t).ref), t, 0)
    ELSE c

\* PrivateKey.algo / bit_size / byte_size
KeyAlgo(o) == o.asn1.algorithm
KeyBitSize(o) == o.asn1.bit_size
KeyByteSize(o) == o.asn1.byte_size

(***************************************************************************)
(* Certificate                                                             *)
(***************************************************************************)
Certificate_public_key_NoCache(c, i, copyFails) ==
    IF c.exc # "none" THEN c
    ELSE IF c.hs[i].ref # 0
    THEN LET c1 == NativeCall(c, Call("SecCertificateCopyPublicKey", c.hs[i].ref, "", "", "", 0))
             c2 == handle_sec_error(c1, copyFails)
             c3 == Alloc(c2, "key", c2.hs[i].asn1, "public")
         IN  IF c2.exc # "none" THEN c2
             ELSE [c3 EXCEPT !.hs[i].pk = "cached", !.hs[i].pkref = Len(c3.heap)]
    ELSE c

Certificate_public_key_ClassCache(c, i, copyFails) ==
    IF c.exc # "none" THEN c
    ELSE IF (\A j \in 1..Len(c.hs) : c.hs[j].pk # "cached") /\ c.hs[i].ref # 0
    THEN LET c1 == NativeCall(c, Call("SecCertificateCopyPublicKey", c.hs[i].ref, "", "", "", 0))
             c2 == handle_sec_error(c1, copyFails)
             c3 == Alloc(c2, "key", c2.hs[i].asn1, "public")
         IN  IF c2.exc # "none" THEN c2
             ELSE [c3 EXCEPT !.hs[i].pk = "cached", !.hs[i].pkref = Len(c3.heap)]
    ELSE c

\* Certificate.public_key; copyFails: SecCertificateCopyPublicKey reports
\* an error status
Certificate_public_key(c, i, copyFails) ==
    IF c.exc # "none" THEN c
    ELSE IF c.hs[i].pk # "cached" /\ c.hs[i].ref # 0
    THEN LET c1 == NativeCall(c, Call("SecCertificateCopyPublicKey", c.hs[i].ref, "", "", "", 0))
             c2 == handle_sec_error(c1, copyFails)
             c3 == Alloc(c2, "key", c2.hs[i].asn1, "public")
         IN  IF c2.exc # "none" THEN c2
             ELSE [c3 EXCEPT !.hs[i].pk = "cached", !.hs[i].pkref = Len(c3.heap)]
    ELSE c

Certificate_del_KeepsKey(c, i) ==
    IF c.hs[i].ref # 0
    THEN [CFReleaseRef(c, c.hs[i].ref) EXCEPT !.hs[i].ref = 0]
    ELSE c

Certificate_del_CertFirst(c, i) ==
    LET c1 == IF c.hs[i].ref # 0
              THEN [CFReleaseRef(c, c.hs[i].ref) EXCEPT !.hs[i].ref = 0]
              ELSE c
    IN  IF c1.hs[i].pk = "cached"
        THEN [PrivateKey_del(c1, Target(i, "pk")) EXCEPT !.hs[i].pk = "detached"]
        ELSE c1

\* Certificate.__del__
Certificate_del(c, i) ==
    LET c1 == IF c.hs[i].pk = "cached"
              THEN [PrivateKey_del(c, Target(i, "pk")) EXCEPT !.hs[i].pk = "detached"]
              ELSE c
    IN  IF c1.hs[i].ref # 0
        THEN [CFReleaseRef(c1, c1.hs[i].ref) EXCEPT !.hs[i].ref = 0]
        ELSE c1

\* evaluating t.algo, t.bit_size, t.byte_size or t.sec_key_ref: a plain
\* attribute read on a key; on a Certificate it goes through public_key and
\* fails on the None that public_key returns once the certificate is empty
GetAttr(c, t, copyFails) ==
    IF c.exc # "none" \/ View(c.hs, t).cls # "Certificate" THEN c
    ELSE LET c1 == Certificate_public_key(c, t.i, copyFails)
         IN  IF c1.exc = "none" /\ c1.hs[t.i].pk # "cached"
             THEN Raise(c1, "AttributeError")
             ELSE c1

\* the object the attribute is finally read from
KeyObj(hs, t) == IF View(hs, t).cls = "Certificate" THEN View(hs, Target(t.i, "pk")) ELSE View(hs, t)

AttrNames == {"algo", "bit_size", "byte_size", "sec_key_ref"}

\* the caller evaluates t.algo, t.bit_size, t.byte_size or t.sec_key_ref
\* (0 for None)
ReadAttribute(c, t, attr, copyFails) ==
    LET c1 == GetAttr(c, t, copyFails)
        o == KeyObj(c1.hs, t)
    IN  IF c1.exc # "none" THEN c1
        ELSE [c1 EXCEPT !.got.str = IF attr = "algo" THEN KeyAlgo(o) ELSE "",
                        !.got.num = CASE attr = "bit_size" -> KeyBitSize(o)
                                      [] attr = "byte_size" -> KeyByteSize(o)
                                      [] attr = "sec_key_ref" -> o.ref
                                      [] OTHER -> 0]

(***************************************************************************)
(* Loaders                                                                 *)
(***************************************************************************)
NamedCurves == {"secp256r1", "secp384r1", "secp521r1"}

KeyTypes == {"dsa", "ec", "rsa"}

PolicyError_NoDsaCheck(k) ==
    IF k.algorithm = "ec"
    THEN IF k.curve_type # "named" THEN "PrivateKeyError"
         ELSE IF k.curve \notin NamedCurves THEN "PrivateKeyError"
         ELSE "none"
    ELSE "none"

\* the Algorithm Policy checks that open _load_key: the exception raised, or
\* "none"
PolicyError(k) ==
    IF k.algorithm = "ec"
    THEN IF k.curve_type # "named" THEN "PrivateKeyError"
         ELSE IF k.curve \notin NamedCurves THEN "PrivateKeyError"
         ELSE "none"
    ELSE IF k.algorithm = "dsa" /\ k.hash_algo = "sha2" THEN "PrivateKeyError"
    ELSE "none"

\* the key_type table of _load_key
key_type(algorithm) ==
    CASE algorithm = "dsa" -> "kSecAttrKeyTypeDSA"
      [] algorithm = "ec" -> "kSecAttrKeyTypeECDSA"
      [] algorithm = "rsa" -> "kSecAttrKeyTypeRSA"
      [] OTHER -> ""

Dump_Wrapped(key_object) == [form |-> key_object.type, key |-> key_object.key]

\* key_object.dump() of a PublicKeyInfo, key_object.unwrap().dump() of a
\* PrivateKeyInfo
Dump(key_object) ==
    [form |-> IF key_object.type = "PublicKeyInfo" THEN "PublicKeyInfo" ELSE "unwrapped",
     key |-> key_object.key]

\* the pairs of cf_dict
KeyAttributes(algorithm, key_class) ==
    {<<"kSecAttrKeyType", key_type(algorithm)>>,
     <<"kSecAttrKeyClass", IF key_class = "public" THEN "kSecAttrKeyClassPublic"
                           ELSE "kSecAttrKeyClassPrivate">>,
     <<"kSecAttrCanSign", "kCFBooleanTrue">>,
     <<"kSecAttrCanVerify", "kCFBooleanTrue">>}

\* Security.SecKeyCreateFromData(cf_dict, cf_source, error_pointer)
SecKeyCreateFromData(c, cf_dict, cf_source, key_class, algorithm) ==
    IF c.exc # "none" THEN c
    ELSE [c EXCEPT !.calls = Append(@, Call("SecKeyCreateFromData", -1, "cf_source",
                                            key_class, algorithm, 0)),
                   !.keyargs = Append(@, [dict |-> cf_dict, bytes |-> cf_source])]

\* _load_key
_load_key(c, key_object, fault) ==
    LET k == key_object.key
        key_class == IF key_object.type = "PublicKeyInfo" THEN "public" ELSE "private"
    IN  IF PolicyError(k) # "none" THEN Raise(c, PolicyError(k))
        ELSE LET c1 == CFCreate(c, "CFDataCreate", "cf_source")
                 c1k == IF k.algorithm \in KeyTypes THEN c1 ELSE Raise(c1, "KeyError")
                 c2 == CFCreate(c1k, "CFDictionaryCreate", "cf_dict")
                 c3 == SecKeyCreateFromData(c2, KeyAttributes(k.algorithm, key_class),
                                            Dump(key_object), key_class, k.algorithm)
                 c4 == handle_cf_error(c3, fault = "construct")
                 c5 == IF c4.exc # "none" THEN c4
                       ELSE LET c6 == Alloc(c4, "key", k, key_class)
                            IN  [c6 EXCEPT !.hs = Append(@,
                                     Wrapper(IF key_class = "public" THEN "PublicKey"
                                             ELSE "PrivateKey", Len(c6.heap), k))]
             IN  Finally(c5, <<"cf_source", "cf_dict", "cf_output">>)

\* _load_x509; failed: SecCertificateCreateWithData returned no reference
\* (NULL), which the function hands to Certificate() unchecked
_load_x509(c, certificate, failed) ==
    LET c1 == CFCreate(c, "CFDataCreate", "cf_source")
        c2 == NativeCall(c1, Call("SecCertificateCreateWithData", -1, "cf_source", "", "", 0))
        c3 == IF failed THEN c2 ELSE Alloc(c2, "cert", certificate.key, "public")
        c4 == [c3 EXCEPT !.hs = Append(@, Wrapper("Certificate",
                                                  IF failed THEN 0 ELSE Len(c3.heap),
                                                  certificate.key))]
    IN  Finally(c4, <<"cf_source">>)

(***************************************************************************)
(* The native security service, as the entry points see it: RSA with a     *)
(* padding is invertible by the other half of the same key pair and by     *)
(* nothing else, a signature verifies exactly against the key pair,        *)
(* digest, padding and message it was made with.                           *)
(***************************************************************************)
\* bytes the PKCS#1 v1.5 encryption padding takes
Pkcs1Overhead == 11
\* SHA-1 output bytes
Sha1Len == 20
\* bytes the OAEP (SHA-1) padding takes
OaepOverhead == 2 * Sha1Len + 2

PadKind(p) ==
    CASE p \in {"kSecPaddingPKCS1", "kSecPaddingPKCS1Key"} -> "pkcs1"
      [] p = "kSecPaddingOAEPKey" -> "oaep"
      [] p = "kSecPaddingNoneKey" -> "raw"
      [] OTHER -> ""

PadOverhead(p) ==
    CASE PadKind(p) = "pkcs1" -> Pkcs1Overhead
      [] PadKind(p) = "oaep" -> OaepOverhead
      [] OTHER -> 0

NoNative == [kind |-> "none", rel |-> 0, key |-> KeyStruct("", "", "", "", 0, 0), class |-> ""]

\* the native object behind a reference; None and released references have none
NativeKey(hp, r) ==
    IF r \in 1..Len(hp) /\ hp[r].rel = 0 THEN hp[r] ELSE NoNative

IsTop(v, l) == v.enc # <<>> /\ Top(v) = l

NativeEncryptOk(nk, pad, v) ==
    /\ nk.kind = "key"
    /\ nk.key.algorithm = "rsa"
    /\ PadKind(pad) # ""
    /\ BLen(v) <= nk.key.byte_size - PadOverhead(pad)

NativeEncryptOut(nk, pad, v) ==
    IF PadKind(pad) = "raw" /\ IsTop(v, Layer("dec", nk.key, "raw", "", 0, 0))
    THEN Pop(v)
    ELSE Push(v, Layer("enc", nk.key, PadKind(pad), "", 0, 0))

NativeDecryptOk(nk, pad, v) ==
    /\ nk.kind = "key"
    /\ nk.key.algorithm = "rsa"
    /\ nk.class = "private"
    /\ PadKind(pad) # ""
    /\ BLen(v) <= nk.key.byte_size
    /\ PadKind(pad) # "raw" => IsTop(v, Layer("enc", nk.key, PadKind(pad), "", 0, 0))

NativeDecryptOut(nk, pad, v) ==
    IF IsTop(v, Layer("enc", nk.key, PadKind(pad), "", 0, 0))
    THEN Pop(v)
    ELSE Push(v, Layer("dec", nk.key, "raw", "", 0, 0))

NativeSignOk(nk) == nk.kind = "key" /\ nk.class = "private"

NativeSignOut(nk, attrs, v) ==
    Push(v, Layer("sig", nk.key, PadKind(attrs.pad), attrs.dig, attrs.num, 0))

NativeVerifyOk(nk) == nk.kind = "key"

NativeVerify(nk, attrs, sig, v) == sig = NativeSignOut(nk, attrs, v)

\* a byte string with one byte changed
Mutate(v) ==
    IF v.enc = <<>> THEN [v EXCEPT !.msg = Append(@, 0)]
    ELSE [v EXCEPT !.enc[Len(v.enc)].mut = 1]

(***************************************************************************)
(* The padding primitive (_pkcs1) and the buffer helpers (_ffi).           *)
(***************************************************************************)
PssHashNames == {"sha1", "sha224", "sha256", "sha384", "sha512"}

\* the primitive rejects a hash name it has no length for
PssRejects(hash_algorithm, hash_length) == hash_length = 0

\* a call of a padding primitive with its arguments, and the number of
\* native calls made before it
PrimCall(c, fn, hash_algorithm, hash_length, bit_size, data) ==
    [c EXCEPT !.prims = Append(@, [fn |-> fn, hash |-> hash_algorithm,
                                   len |-> hash_length, bits |-> bit_size,
                                   data |-> data, at |-> Len(c.calls)])]

add_pss_padding(hash_algorithm, hash_length, bit_size, data) ==
    Push(data, [op |-> "pss", kp |-> 0, bits |-> bit_size, pad |-> "",
                dig |-> hash_algorithm, num |-> hash_length, mut |-> 0])

verify_pss_padding(hash_algorithm, hash_length, bit_size, data, plaintext) ==
    plaintext = add_pss_padding(hash_algorithm, hash_length, bit_size, data)

\* bytes_from_buffer(buffer, n): the first n bytes of the buffer
bytes_from_buffer(v, n) ==
    IF n >= BLen(v) THEN v
    ELSE IF v.enc = <<>> THEN [v EXCEPT !.msg = SubSeq(@, 1, n)]
    ELSE Mutate(v)

(***************************************************************************)
(* The transform stages.                                                   *)
(***************************************************************************)
SetAttr(attrs, name, val, num) ==
    CASE name = "kSecDigestTypeAttribute" -> [attrs EXCEPT !.dig = val]
      [] name = "kSecDigestLengthAttribute" -> [attrs EXCEPT !.num = num]
      [] name = "kSecPaddingKey" -> [attrs EXCEPT !.pad = val]
      [] OTHER -> attrs

TransformCreate_Unchecked(c, fn, ref, failed) ==
    IF c.exc # "none" THEN c
    ELSE LET c1 == NativeCall(c, Call(fn, ref, "", "", "", 0))
             bad == failed \/ NativeKey(c.heap, ref).kind # "key"
         IN  IF bad THEN c1 ELSE Created(c1, "sec_transform")

\* Sec*TransformCreate(key, error_pointer); handle_cf_error(error_pointer)
TransformCreate(c, fn, ref, failed) ==
    IF c.exc # "none" THEN c
    ELSE LET c1 == NativeCall(c, Call(fn, ref, "", "", "", 0))
             bad == failed \/ NativeKey(c.heap, ref).kind # "key"
         IN  handle_cf_error(IF bad THEN c1 ELSE Created(c1, "sec_transform"), bad)

\* SecTransformSetAttribute(sec_transform, name, value, error_pointer);
\* handle_cf_error(error_pointer)
SetAttribute(c, name, val, num, failed) ==
    IF c.exc # "none" THEN c
    ELSE handle_cf_error(
            [c EXCEPT !.calls = Append(@, Call("SecTransformSetAttribute", -1,
                                               "sec_transform", name, val, num)),
                      !.attrs = SetAttr(@, name, val, num)],
            failed)

\* x = SecTransformExecute(sec_transform, error_pointer);
\* handle_cf_error(error_pointer)
TransformExecute(c, name, ok, out, flag, failed) ==
    IF c.exc # "none" THEN c
    ELSE LET c1 == NativeCall(c, Call("SecTransformExecute", -1, "sec_transform", "", "", 0))
             bad == failed \/ ~ok
         IN  IF bad THEN handle_cf_error(c1, TRUE)
             ELSE [Created(c1, name) EXCEPT !.val = out, !.flag = flag]

\* CFHelpers.cf_data_to_bytes(x) / CoreFoundation.CFBooleanGetValue(x) on the
\* object the execute stage returned
Extract(c, fn, name) == NativeCall(c, Call(fn, -1, name, "", "", 0))

IsInstance(o, classes) ==
    \/ o.cls \in classes
    \/ o.cls = "PublicKey" /\ "PrivateKey" \in classes

(***************************************************************************)
(* Encryption and decryption                                               *)
(***************************************************************************)
\* rsa_pkcs1v15_encrypt
rsa_pkcs1v15_encrypt(c, t, data, fault) ==
    IF ~IsInstance(View(c.hs, t), {"Certificate", "PublicKey"}) THEN Raise(c, "ValueError")
    ELSE LET c1 == GetAttr(c, t, fault = "copy")
             key_length == KeyByteSize(KeyObj(c1.hs, t))
             c2 == GetAttr(c1, t, fault = "copy")
             ref == KeyObj(c2.hs, t).ref
             nk == NativeKey(c2.heap, ref)
             c3 == NativeCall(c2, Call("SecKeyEncrypt", ref, "", "", "kSecPaddingPKCS1", 0))
             out == NativeEncryptOut(nk, "kSecPaddingPKCS1", data)
             ok == /\ NativeEncryptOk(nk, "kSecPaddingPKCS1", data)
                   /\ BLen(out) <= key_length
                   /\ fault # "execute"
             c4 == handle_sec_error(c3, ~ok)
         IN  IF c4.exc # "none" THEN c4
             ELSE [c4 EXCEPT !.val = bytes_from_buffer(out, BLen(out))]

\* rsa_pkcs1v15_decrypt
rsa_pkcs1v15_decrypt(c, t, ciphertext, fault) ==
    IF ~IsInstance(View(c.hs, t), {"PrivateKey"}) THEN Raise(c, "ValueError")
    ELSE LET key_length == KeyByteSize(View(c.hs, t))
             ref == View(c.hs, t).ref
             nk == NativeKey(c.heap, ref)
             c3 == NativeCall(c, Call("SecKeyDecrypt", ref, "", "", "kSecPaddingPKCS1", 0))
             out == NativeDecryptOut(nk, "kSecPaddingPKCS1", ciphertext)
             ok == /\ NativeDecryptOk(nk, "kSecPaddingPKCS1", ciphertext)
                   /\ BLen(out) <= key_length
                   /\ fault # "execute"
             c4 == handle_sec_error(c3, ~ok)
         IN  IF c4.exc # "none" THEN c4
             ELSE [c4 EXCEPT !.val = bytes_from_buffer(out, BLen(out))]

\* _encrypt
_encrypt(c, t, data, padding, fault) ==
    IF c.exc # "none" THEN c
    ELSE IF ~IsInstance(View(c.hs, t), {"Certificate", "PublicKey"}) THEN Raise(c, "ValueError")
    ELSE IF padding = "" THEN Raise(c, "ValueError")
    ELSE LET c1 == CFCreate(c, "CFDataCreate", "cf_data")
             c2 == GetAttr(c1, t, fault = "copy")
             ref == KeyObj(c2.hs, t).ref
             nk == NativeKey(c2.heap, ref)
             c3 == TransformCreate(c2, "SecEncryptTransformCreate", ref, fault = "construct")
             c4 == IF padding # ""
                   THEN SetAttribute(c3, "kSecPaddingKey", padding, 0, fault = "padding")
                   ELSE c3
             c5 == SetAttribute(c4, "kSecTransformInputAttributeName", "cf_data", 0,
                                fault = "input")
             c6 == TransformExecute(c5, "ciphertext",
                                    NativeEncryptOk(nk, c5.attrs.pad, data),
                                    NativeEncryptOut(nk, c5.attrs.pad, data), FALSE,
                                    fault = "execute")
             c7 == Extract(c6, "cf_data_to_bytes", "ciphertext")
         IN  Finally(c7, <<"cf_data", "sec_transform">>)

\* _decrypt
_decrypt(c, t, ciphertext, padding, fault) ==
    IF c.exc # "none" THEN c
    ELSE IF ~IsInstance(View(c.hs, t), {"PrivateKey"}) THEN Raise(c, "ValueError")
    ELSE IF padding = "" THEN Raise(c, "ValueError")
    ELSE LET c1 == CFCreate(c, "CFDataCreate", "cf_data")
             ref == View(c1.hs, t).ref
             nk == NativeKey(c1.heap, ref)
             c3 == TransformCreate(c1, "SecDecryptTransformCreate", ref, fault = "construct")
             c4 == SetAttribute(c3, "kSecPaddingKey", padding, 0, fault = "padding")
             c5 == SetAttribute(c4, "kSecTransformInputAttributeName", "cf_data", 0,
                                fault = "input")
             c6 == TransformExecute(c5, "plaintext",
                                    NativeDecryptOk(nk, c5.attrs.pad, ciphertext),
                                    NativeDecryptOut(nk, c5.attrs.pad, ciphertext), FALSE,
                                    fault = "execute")
             c7 == Extract(c6, "cf_data_to_bytes", "plaintext")
         IN  Finally(c7, <<"cf_data", "sec_transform">>)

\* rsa_oaep_encrypt
rsa_oaep_encrypt(c, t, data, fault) == _encrypt(c, t, data, "kSecPaddingOAEPKey", fault)

rsa_oaep_decrypt_Pkcs1(c, t, ciphertext, fault) ==
    _decrypt(c, t, ciphertext, "kSecPaddingPKCS1Key", fault)

\* rsa_oaep_decrypt
rsa_oaep_decrypt(c, t, ciphertext, fault) ==
    _decrypt(c, t, ciphertext, "kSecPaddingOAEPKey", fault)

(***************************************************************************)
(* Signing and verification                                                *)
(***************************************************************************)
Sha2Names == {"sha224", "sha256", "sha384", "sha512"}

\* the hash_constant table of _verify
verify_hash_constant(hash_algorithm) ==
    CASE hash_algorithm = "md5" -> "kSecDigestMD5"
      [] hash_algorithm = "sha1" -> "kSecDigestSHA1"
      [] OTHER -> "kSecDigestSHA2"

verify_hash_length_Slip(hash_algorithm) ==
    CASE hash_algorithm = "sha224" -> 224
      [] hash_algorithm = "sha256" -> 256
      [] hash_algorithm = "sha384" -> 256
      [] hash_algorithm = "sha512" -> 512
      [] OTHER -> 0

\* the hash_length table of _verify
verify_hash_length(hash_algorithm) ==
    CASE hash_algorithm = "sha224" -> 224
      [] hash_algorithm = "sha256" -> 256
      [] hash_algorithm = "sha384" -> 384
      [] hash_algorithm = "sha512" -> 512
      [] OTHER -> 0

sign_hash_constant_Sha1AsSha2(hash_algorithm) ==
    CASE hash_algorithm = "md5" -> "kSecDigestMD5"
      [] OTHER -> "kSecDigestSHA2"

\* the hash_constant table of _sign
sign_hash_constant(hash_algorithm) ==
    CASE hash_algorithm = "md5" -> "kSecDigestMD5"
      [] hash_algorithm = "sha1" -> "kSecDigestSHA1"
      [] OTHER -> "kSecDigestSHA2"

\* the hash_length table of _sign
sign_hash_length(hash_algorithm) ==
    CASE hash_algorithm = "sha224" -> 224
      [] hash_algorithm = "sha256" -> 256
      [] hash_algorithm = "sha384" -> 384
      [] hash_algorithm = "sha512" -> 512
      [] OTHER -> 0

\* the hash_length table of rsa_pss_verify, with its .get(hash_algorithm, 0)
pss_verify_hash_length(hash_algorithm) ==
    CASE hash_algorithm = "sha1" -> 20
      [] hash_algorithm = "sha224" -> 28
      [] hash_algorithm = "sha256" -> 32
      [] hash_algorithm = "sha384" -> 48
      [] hash_algorithm = "sha512" -> 64
      [] OTHER -> 0

pss_sign_hash_length_Slip(hash_algorithm) ==
    CASE hash_algorithm = "sha1" -> 20
      [] hash_algorithm = "sha224" -> 28
      [] hash_algorithm = "sha256" -> 32
      [] hash_algorithm = "sha384" -> 32
      [] hash_algorithm = "sha512" -> 64
      [] OTHER -> 0

\* the hash_length table of rsa_pss_sign, with its .get(hash_algorithm, 0)
pss_sign_hash_length(hash_algorithm) ==
    CASE hash_algorithm = "sha1" -> 20
      [] hash_algorithm = "sha224" -> 28
      [] hash_algorithm = "sha256" -> 32
      [] hash_algorithm = "sha384" -> 48
      [] hash_algorithm = "sha512" -> 64
      [] OTHER -> 0

\* the digest-type attribute, and for a SHA-2 name the digest-length
\* attribute, as _sign and _verify set them from their tables
SetDigest(c, hash_algorithm, hash_const, hash_length, fault) ==
    LET c1 == SetAttribute(c, "kSecDigestTypeAttribute", hash_const, 0,
                           fault = "digest_type")
    IN  IF hash_algorithm \in Sha2Names
        THEN SetAttribute(CFCreate(c1, "CFNumberCreate", "cf_hash_length"),
                          "kSecDigestLengthAttribute", "cf_hash_length",
                          hash_length, fault = "digest_length")
        ELSE c1

SetPadding_Never(c, algo, fault) == c

SetPadding_Always(c, algo, fault) ==
    SetAttribute(c, "kSecPaddingKey", "kSecPaddingPKCS1Key", 0, fault = "padding")

\* the padding attribute, as _sign and _verify set it
SetPadding(c, algo, fault) ==
    IF algo = "rsa"
    THEN SetAttribute(c, "kSecPaddingKey", "kSecPaddingPKCS1Key", 0, fault = "padding")
    ELSE c

VerifyOutcome_NoRaise(c) == c

\* res = bool(CFBooleanGetValue(res)); if not res: raise SignatureError
VerifyOutcome(c) ==
    IF c.exc = "none" /\ ~c.flag THEN Raise(c, "SignatureError") ELSE c

\* _verify
_verify(c, t, signature, data, hash_algorithm, fault) ==
    IF c.exc # "none" THEN c
    ELSE IF ~IsInstance(View(c.hs, t), {"Certificate", "PublicKey"}) THEN Raise(c, "ValueError")
    ELSE IF hash_algorithm \notin HashNames THEN Raise(c, "ValueError")
    ELSE LET c1 == CFCreate(c, "CFDataCreate", "cf_signature")
             c2 == GetAttr(c1, t, fault = "copy")
             ref == KeyObj(c2.hs, t).ref
             nk == NativeKey(c2.heap, ref)
             c3 == TransformCreate(c2, "SecVerifyTransformCreate", ref, fault = "construct")
             c4 == SetDigest(c3, hash_algorithm, verify_hash_constant(hash_algorithm),
                             verify_hash_length(hash_algorithm), fault)
             c5 == GetAttr(c4, t, fault = "copy")
             c6 == SetPadding(c5, KeyAlgo(KeyObj(c5.hs, t)), fault)
             c7 == CFCreate(c6, "CFDataCreate", "cf_data")
             c8 == SetAttribute(c7, "kSecTransformInputAttributeName", "cf_data", 0,
                                fault = "input")
             c9 == TransformExecute(c8, "res", NativeVerifyOk(nk), NoBytes,
                                    NativeVerify(nk, c8.attrs, signature, data),
                                    fault = "execute")
             c10 == Extract(c9, "CFBooleanGetValue", "res")
         IN  Finally(VerifyOutcome(c10),
                     <<"sec_transform", "cf_signature", "cf_data", "cf_hash_length">>)

\* _sign
_sign(c, t, data, hash_algorithm, fault) ==
    IF c.exc # "none" THEN c
    ELSE IF ~IsInstance(View(c.hs, t), {"PrivateKey"}) THEN Raise(c, "ValueError")
    ELSE IF hash_algorithm \notin HashNames THEN Raise(c, "ValueError")
    ELSE LET ref == View(c.hs, t).ref
             nk == NativeKey(c.heap, ref)
             c3 == TransformCreate(c, "SecSignTransformCreate", ref, fault = "construct")
             c4 == SetDigest(c3, hash_algorithm, sign_hash_constant(hash_algorithm),
                             sign_hash_length(hash_algorithm), fault)
             c6 == SetPadding(c4, KeyAlgo(View(c.hs, t)), fault)
             c7 == CFCreate(c6, "CFDataCreate", "cf_data")
             c8 == SetAttribute(c7, "kSecTransformInputAttributeName", "cf_data", 0,
                                fault = "input")
             c9 == TransformExecute(c8, "cf_signature", NativeSignOk(nk),
                                    NativeSignOut(nk, c8.attrs, data), FALSE,
                                    fault = "execute")
             c10 == Extract(c9, "cf_data_to_bytes", "cf_signature")
         IN  Finally(c10, <<"sec_transform", "cf_signature", "cf_data", "cf_hash_length">>)

\* the `if key.algo != '...': raise ValueError(...)` that opens the
\* per-algorithm sign and verify entry points
CheckAlgo(c, t, algo, fault) ==
    LET c1 == GetAttr(c, t, fault = "copy")
    IN  IF c1.exc = "none" /\ KeyAlgo(KeyObj(c1.hs, t)) # algo
        THEN Raise(c1, "ValueError")
        ELSE c1

\* rsa_pkcs1v15_verify
rsa_pkcs1v15_verify(c, t, signature, data, hash_algorithm, fault) ==
    _verify(CheckAlgo(c, t, "rsa", fault), t, signature, data, hash_algorithm, fault)

\* dsa_verify
dsa_verify(c, t, signature, data, hash_algorithm, fault) ==
    _verify(CheckAlgo(c, t, "dsa", fault), t, signature, data, hash_algorithm, fault)

\* ecdsa_verify
ecdsa_verify(c, t, signature, data, hash_algorithm, fault) ==
    _verify(CheckAlgo(c, t, "ec", fault), t, signature, data, hash_algorithm, fault)

PssVerdict_AsNativeError(c, valid) == IF ~valid THEN Raise(c, "OSError") ELSE c

\* if not verify_pss_padding(...): raise SignatureError
PssVerdict(c, valid) == IF ~valid THEN Raise(c, "SignatureError") ELSE c

\* rsa_pss_verify
rsa_pss_verify(c, t, signature, data, hash_algorithm, fault) ==
    IF ~IsInstance(View(c.hs, t), {"Certificate", "PublicKey"}) THEN Raise(c, "ValueError")
    ELSE LET c1 == CheckAlgo(c, t, "rsa", fault)
             hash_length == pss_verify_hash_length(hash_algorithm)
             c2 == _encrypt(c1, t, signature, "kSecPaddingNoneKey", fault)
             c3 == GetAttr(c2, t, fault = "copy")
             bit_size == KeyBitSize(KeyObj(c3.hs, t))
             c4 == PrimCall(c3, "verify_pss_padding", hash_algorithm, hash_length,
                            bit_size, data)
         IN  IF c3.exc # "none" THEN c3
             ELSE IF PssRejects(hash_algorithm, hash_length) THEN Raise(c4, "ValueError")
             ELSE PssVerdict([c4 EXCEPT !.val = NoBytes],
                             verify_pss_padding(hash_algorithm, hash_length, bit_size, data,
                                                c3.val))

\* rsa_pkcs1v15_sign
rsa_pkcs1v15_sign(c, t, data, hash_algorithm, fault) ==
    _sign(CheckAlgo(c, t, "rsa", fault), t, data, hash_algorithm, fault)

\* dsa_sign
dsa_sign(c, t, data, hash_algorithm, fault) ==
    _sign(CheckAlgo(c, t, "dsa", fault), t, data, hash_algorithm, fault)

\* ecdsa_sign
ecdsa_sign(c, t, data, hash_algorithm, fault) ==
    _sign(CheckAlgo(c, t, "ec", fault), t, data, hash_algorithm, fault)

\* rsa_pss_sign
rsa_pss_sign(c, t, data, hash_algorithm, fault) ==
    IF ~IsInstance(View(c.hs, t), {"PrivateKey"}) THEN Raise(c, "ValueError")
    ELSE LET c1 == CheckAlgo(c, t, "rsa", fault)
             hash_length == pss_sign_hash_length(hash_algorithm)
             bit_size == KeyBitSize(View(c1.hs, t))
             c2 == PrimCall(c1, "add_pss_padding", hash_algorithm, hash_length,
                            bit_size, data)
         IN  IF c1.exc # "none" THEN c1
             ELSE IF PssRejects(hash_algorithm, hash_length) THEN Raise(c2, "ValueError")
             ELSE _decrypt(c2, t, add_pss_padding(hash_algorithm, hash_length, bit_size, data),
                           "kSecPaddingNoneKey", fault)

(***************************************************************************)
(* The public loaders.  A source is an already-parsed structure ("asn1"),  *)
(* a byte string ("bytes"), a file name ("str") or anything else           *)
(* ("other"); obj is the structure it is or encodes.                       *)
(***************************************************************************)
\* A password is None ("none"), a byte string, a unicode string or anything
\* else; text spells a unicode string by its characters and a byte string by
\* its bytes in hexadecimal.
Password(kind, text) == [kind |-> kind, text |-> text]
NoPassword == Password("none", "")

\* password.encode('utf-8')
Utf8(text) ==
    CASE text = "pw" -> "7077"
      [] text = "p4ss" -> "70347373"
      [] OTHER -> ""

\* the password as the loaders hand it to the parser: a unicode string is
\* encoded, None stays None
EncodedPassword(password) ==
    IF password.kind = "str" THEN Password("bytes", Utf8(password.text)) ELSE password

\* lock is the password the bytes are encrypted under, "" when they are not
\* encrypted; password is the one the caller passes along with the source
Source(kind, obj) == [kind |-> kind, obj |-> obj, lock |-> "", password |-> NoPassword]

SourceKinds == {"asn1", "bytes", "str", "other"}

NoSource == Source("", Asn1("", NoView.asn1))

\* keys.parse_private / parse_public / parse_certificate: the structure the
\* bytes encode, or a failure when they encode something else
ParseFails(source, type) == source.obj.type # type

\* parse_private / parse_pkcs12 given a password: encrypted bytes are
\* decoded with the matching password only
Undecryptable(lock, password) ==
    lock # "" /\ (password.kind # "bytes" \/ password.text # lock)

\* load_certificate
load_certificate(c, source, fault) ==
    IF source.kind = "asn1" /\ source.obj.type = "Certificate"
    THEN _load_x509(c, source.obj, fault = "certificate")
    ELSE IF source.kind \in {"bytes", "str"}
    THEN IF ParseFails(source, "Certificate") THEN Raise(c, "ValueError")
         ELSE _load_x509(c, source.obj, fault = "certificate")
    ELSE Raise(c, "ValueError")

\* load_private_key
load_private_key(c, source, password, fault) ==
    IF source.kind = "asn1" /\ source.obj.type = "PrivateKeyInfo"
    THEN _load_key(c, source.obj, fault)
    ELSE IF EncodedPassword(password).kind \notin {"none", "bytes"} THEN Raise(c, "ValueError")
    ELSE IF source.kind \notin {"bytes", "str"} THEN Raise(c, "ValueError")
    ELSE IF ParseFails(source, "PrivateKeyInfo") THEN Raise(c, "ValueError")
    ELSE IF Undecryptable(source.lock, EncodedPassword(password)) THEN Raise(c, "ValueError")
    ELSE _load_key(c, source.obj, fault)

\* load_public_key; its last branch reads the local public_key before any
\* assignment to it
load_public_key(c, source, fault) ==
    IF source.kind = "asn1" /\ source.obj.type = "PublicKeyInfo"
    THEN _load_key(c, source.obj, fault)
    ELSE IF source.kind \in {"bytes", "str"}
    THEN IF ParseFails(source, "PublicKeyInfo") THEN Raise(c, "ValueError")
         ELSE _load_key(c, source.obj, fault)
    ELSE Raise(c, "UnboundLocalError")

RECURSIVE LoadExtraCerts_Unique(_, _, _)
LoadExtraCerts_Unique(c, infos, fault) ==
    IF infos = <<>> THEN c
    ELSE IF InSeq(Head(infos), Tail(infos)) THEN LoadExtraCerts_Unique(c, Tail(infos), fault)
    ELSE LET c1 == _load_x509(c, Head(infos), fault = "certificate")
         IN  LoadExtraCerts_Unique([c1 EXCEPT !.got.extra = Append(@, Len(c1.hs))],
                                   Tail(infos), fault)

\* extra_certs = [_load_x509(info[0]) for info in extra_certs_info]
RECURSIVE LoadExtraCerts(_, _, _)
LoadExtraCerts(c, infos, fault) ==
    IF infos = <<>> THEN c
    ELSE LET c1 == _load_x509(c, Head(infos), fault = "certificate")
         IN  LoadExtraCerts([c1 EXCEPT !.got.extra = Append(@, Len(c1.hs))], Tail(infos),
                            fault)

\* load_pkcs12; key_info, cert_info and extra_certs_info are what
\* parse_pkcs12 finds in the file; the tuple (key, cert, extra_certs) it
\* returns is got.key, got.cert, got.extra
load_pkcs12(c, source, password, key_info, cert_info, extra_certs_info, fault) ==
    IF EncodedPassword(password).kind \notin {"none", "bytes"} THEN Raise(c, "ValueError")
    ELSE IF source.kind \notin {"bytes", "str"} THEN Raise(c, "ValueError")
    ELSE IF Undecryptable(source.lock, EncodedPassword(password)) THEN Raise(c, "ValueError")
    ELSE LET c0 == [c EXCEPT !.got.parsed = <<key_info, cert_info, extra_certs_info>>]
             c1 == IF key_info # NoInfo
                   THEN LET ck == _load_key(c0, key_info, fault)
                        IN  [ck EXCEPT !.got.key = Len(ck.hs)]
                   ELSE c0
         IN  IF c1.exc # "none" THEN c1
             ELSE LET c2 == IF cert_info # NoInfo
                            THEN LET cc == _load_x509(c1, cert_info, fault = "certificate")
                                 IN  [cc EXCEPT !.got.cert = Len(cc.hs)]
                            ELSE c1
                  IN  LoadExtraCerts(c2, extra_certs_info, fault)

(***************************************************************************)
(* Actions: one per entry point.  last records the call just made, with    *)
(* the object it was made on as it was before the call.                    *)
(***************************************************************************)
NoCall ==
    [op |-> "none", t |-> NoTarget, hash |-> "", fault |-> "none", exc |-> "none",
     calls |-> <<>>, created |-> <<>>, released |-> <<>>, attrs |-> NoAttrs,
     flag |-> FALSE, pre |-> NoView, k |-> NoView.asn1, arg |-> NoBytes, data |-> NoBytes,
     src |-> "", ty |-> "", got |-> NoGot, prims |-> <<>>, keyargs |-> <<>>,
     password |-> NoPassword]

Commit(result, op, t, k, arg, data, hash, fault, source) ==
    \E c \in {result} :
        /\ handles' = c.hs
        /\ heap' = c.heap
        /\ last' = [op |-> op, t |-> t, hash |-> hash, fault |-> fault, exc |-> c.exc,
                    calls |-> c.calls, created |-> c.created, released |-> c.released,
                    attrs |-> c.attrs, flag |-> c.flag,
                    pre |-> IF t.i = 0 THEN NoView ELSE View(handles, t),
                    k |-> k, arg |-> arg, data |-> data,
                    src |-> source.kind, ty |-> source.obj.type,
                    got |-> IF c.exc = "none" THEN c.got ELSE NoGot, prims |-> c.prims,
                    keyargs |-> c.keyargs, password |-> source.password]
        /\ ret' = IF c.exc = "none" THEN c.val ELSE NoBytes
        /\ UNCHANGED <<threads, pool>>

Start == Ctx(handles, heap)

\* the threads of the process.  In a __del__: the source line a thread is at
\* (pc), on which object (t), whether on behalf of a Certificate.__del__
\* (frame), the reference its emptiness check read (saw) and the exception
\* that ended it (exc).  In an entry point: the call (op, t and the
\* arguments), the native calls made so far (n, trace), its local variables
\* (env: the name and the native object bound to it), the objects it passed
\* to CFRelease (released), whether it stored a derived PublicKey (derived),
\* what it returned (exc, val, flag), and the wrappers and native references
\* of the process when it made the call (hs0, heap0).
Threads == {1, 2}

Idle ==
    [pc |-> "idle", t |-> NoTarget, frame |-> "", saw |-> 0, exc |-> "none",
     op |-> "", arg |-> NoBytes, data |-> NoBytes, hash |-> "", fault |-> "none",
     n |-> 0, trace |-> <<>>, env |-> <<>>, released |-> <<>>, derived |-> FALSE,
     val |-> NoBytes, flag |-> FALSE, hs0 |-> <<>>, heap0 |-> <<>>]

NoThreads == [th \in Threads |-> Idle]

\* what the caller keeps of a signature or ciphertext it obtained: the bytes,
\* and the call that made them
NoHeld == [val |-> NoBytes, op |-> "none", hash |-> "", data |-> NoBytes, kp |-> 0,
           mut |-> FALSE]

LoadPrivateKey(source, password, fault) ==
    /\ Commit(load_private_key(Start, source, password, fault), "load_private_key", NoTarget,
              source.obj.key, NoBytes, NoBytes, "", fault,
              [source EXCEPT !.password = password])
    /\ UNCHANGED held

LoadPublicKey(source, fault) ==
    /\ Commit(load_public_key(Start, source, fault), "load_public_key", NoTarget,
              source.obj.key, NoBytes, NoBytes, "", fault, source)
    /\ UNCHANGED held

LoadCertificate(source, fault) ==
    /\ Commit(load_certificate(Start, source, fault), "load_certificate", NoTarget,
              source.obj.key, NoBytes, NoBytes, "", fault, source)
    /\ UNCHANGED held

LoadPkcs12(source, password, key_info, cert_info, extra_certs_info, fault) ==
    /\ Commit(load_pkcs12(Start, source, password, key_info, cert_info, extra_certs_info,
                          fault),
              "load_pkcs12", NoTarget, key_info.key, NoBytes, NoBytes, "", fault,
              [source EXCEPT !.password = password])
    /\ UNCHANGED held

\* the caller reads certificate.public_key
PublicKey(i, fault) ==
    /\ handles[i].cls = "Certificate"
    /\ Commit(Certificate_public_key(Start, i, fault = "copy"), "public_key",
              Target(i, "self"), handles[i].asn1, NoBytes, NoBytes, "", fault, NoSource)
    /\ UNCHANGED held

\* the caller reads t.algo, t.bit_size, t.byte_size or t.sec_key_ref
GetAttribute(t, attr, fault) ==
    /\ Commit(ReadAttribute(Start, t, attr, fault = "copy"), attr, t, View(handles, t).asn1,
              NoBytes, NoBytes, "", fault, NoSource)
    /\ UNCHANGED held

\* the caller, or the garbage collector, runs t.__del__()
Del(t) ==
    /\ Commit(IF View(handles, t).cls = "Certificate" THEN Certificate_del(Start, t.i)
              ELSE PrivateKey_del(Start, t),
              "__del__", t, View(handles, t).asn1, NoBytes, NoBytes, "", "none", NoSource)
    /\ UNCHANGED held

OpCommit(c, op, t, arg, data, hash, fault) ==
    Commit(c, op, t, View(handles, t).asn1, arg, data, hash, fault, NoSource)

RsaPkcs1v15Encrypt(t, data, fault) ==
    OpCommit(rsa_pkcs1v15_encrypt(Start, t, data, fault), "rsa_pkcs1v15_encrypt", t,
             NoBytes, data, "", fault)

RsaPkcs1v15Decrypt(t, ciphertext, fault) ==
    OpCommit(rsa_pkcs1v15_decrypt(Start, t, ciphertext, fault), "rsa_pkcs1v15_decrypt", t,
             ciphertext, NoBytes, "", fault)

RsaOaepEncrypt(t, data, fault) ==
    OpCommit(rsa_oaep_encrypt(Start, t, data, fault), "rsa_oaep_encrypt", t,
             NoBytes, data, "", fault)

RsaOaepDecrypt(t, ciphertext, fault) ==
    OpCommit(rsa_oaep_decrypt(Start, t, ciphertext, fault), "rsa_oaep_decrypt", t,
             ciphertext, NoBytes, "", fault)

RsaPkcs1v15Sign(t, data, hash, fault) ==
    OpCommit(rsa_pkcs1v15_sign(Start, t, data, hash, fault), "rsa_pkcs1v15_sign", t,
             NoBytes, data, hash, fault)

RsaPssSign(t, data, hash, fault) ==
    OpCommit(rsa_pss_sign(Start, t, data, hash, fault), "rsa_pss_sign", t,
             NoBytes, data, hash, fault)

DsaSign(t, data, hash, fault) ==
    OpCommit(dsa_sign(Start, t, data, hash, fault), "dsa_sign", t, NoBytes, data, hash, fault)

EcdsaSign(t, data, hash, fault) ==
    OpCommit(ecdsa_sign(Start, t, data, hash, fault), "ecdsa_sign", t,
             NoBytes, data, hash, fault)

RsaPkcs1v15Verify(t, signature, data, hash, fault) ==
    OpCommit(rsa_pkcs1v15_verify(Start, t, signature, data, hash, fault),
             "rsa_pkcs1v15_verify", t, signature, data, hash, fault)

RsaPssVerify(t, signature, data, hash, fault) ==
    OpCommit(rsa_pss_verify(Start, t, signature, data, hash, fault), "rsa_pss_verify", t,
             signature, data, hash, fault)

DsaVerify(t, signature, data, hash, fault) ==
    OpCommit(dsa_verify(Start, t, signature, data, hash, fault), "dsa_verify", t,
             signature, data, hash, fault)

EcdsaVerify(t, signature, data, hash, fault) ==
    OpCommit(ecdsa_verify(Start, t, signature, data, hash, fault), "ecdsa_verify", t,
             signature, data, hash, fault)

EncryptOps == {"rsa_pkcs1v15_encrypt", "rsa_oaep_encrypt"}
DecryptOps == {"rsa_pkcs1v15_decrypt", "rsa_oaep_decrypt"}
SignOps == {"rsa_pkcs1v15_sign", "rsa_pss_sign", "dsa_sign", "ecdsa_sign"}
VerifyOps == {"rsa_pkcs1v15_verify", "rsa_pss_verify", "dsa_verify", "ecdsa_verify"}
StagedOps == {"rsa_oaep_encrypt", "rsa_oaep_decrypt"} \cup SignOps \cup VerifyOps
EntryOps == EncryptOps \cup DecryptOps \cup SignOps \cup VerifyOps

(***************************************************************************)
(* Spec: the life of the wrappers.  The caller loads keys and              *)
(* certificates, reads public_key, calls the entry points and tears        *)
(* objects down, in any order.                                             *)
(***************************************************************************)
Msg == Raw(<<7, 9>>)
Junk == Raw(<<1>>)

LifeSources ==
    {Source("asn1", Asn1(ty, k)) :
        ty \in {"PrivateKeyInfo", "PublicKeyInfo", "Certificate"}, k \in OpKeys}

LifeHashes == {"sha1"}

Init ==
    /\ handles = <<>>
    /\ heap = <<>>
    /\ last = NoCall
    /\ ret = NoBytes
    /\ held = NoHeld
    /\ threads = NoThreads
    /\ pool = {}

Load ==
    /\ Len(handles) < MaxHandles
    /\ \E s \in LifeSources :
        \/ LoadPrivateKey(s, NoPassword, "none")
        \/ LoadPublicKey(s, "none")
        \/ LoadCertificate(s, "none")

Derive == \E i \in 1..Len(handles), f \in {"none", "copy"} : PublicKey(i, f)

Teardown == \E t \in Targets(handles) : Del(t)

Use ==
    /\ UNCHANGED held
    /\ \E t \in Targets(handles), h \in LifeHashes :
        \/ RsaPkcs1v15Encrypt(t, Msg, "none")
        \/ RsaPkcs1v15Decrypt(t, Junk, "none")
        \/ RsaOaepEncrypt(t, Msg, "none")
        \/ RsaOaepDecrypt(t, Junk, "none")
        \/ RsaPkcs1v15Sign(t, Msg, h, "none")
        \/ RsaPssSign(t, Msg, h, "none")
        \/ DsaSign(t, Msg, h, "none")
        \/ EcdsaSign(t, Msg, h, "none")
        \/ RsaPkcs1v15Verify(t, Junk, Msg, h, "none")
        \/ RsaPssVerify(t, Junk, Msg, h, "none")
        \/ DsaVerify(t, Junk, Msg, h, "none")
        \/ EcdsaVerify(t, Junk, Msg, h, "none")

Read ==
    \E t \in Targets(handles), a \in AttrNames, f \in {"none", "copy"} :
        /\ f = "copy" => View(handles, t).cls = "Certificate"
        /\ GetAttribute(t, a, f)

Next == Load \/ Derive \/ Teardown \/ Use \/ Read

Spec == Init /\ [][Next]_vars

(***************************************************************************)
(* SpecPipe: one entry-point call on one wrapper, in any state of its      *)
(* life, with any hash name and with the native service failing at any     *)
(* stage.                                                                  *)
(***************************************************************************)
Fresh == Ctx(<<>>, <<>>)

\* the states one wrapper goes through, obtained from the loaders,
\* Certificate.public_key and the teardowns
PipeStates ==
    LET keys == {_load_key(Fresh, Asn1(ty, k), "none") :
                    ty \in {"PrivateKeyInfo", "PublicKeyInfo"}, k \in OpKeys}
        certs == {_load_x509(Fresh, Asn1("Certificate", k), FALSE) : k \in OpKeys}
        derived == {Certificate_public_key(c, 1, FALSE) : c \in certs}
    IN  keys \cup certs \cup derived
        \cup {PrivateKey_del(c, Target(1, "self")) : c \in keys}
        \cup {Certificate_del(c, 1) : c \in certs \cup derived}
        \cup {PrivateKey_del(c, Target(1, "pk")) : c \in derived}

Faults == {"none", "copy", "construct", "digest_type", "digest_length", "padding",
           "input", "execute"}

PipeHashes == HashNames \cup {"sha3"}

\* the signature the matching private key makes of Msg
GoodSig(k, h) ==
    LET c == _load_key(Fresh, Asn1("PrivateKeyInfo", k), "none")
    IN  _sign(c, Target(1, "self"), Msg, h, "none").val

InitPipe ==
    /\ \E c \in PipeStates : handles = c.hs /\ heap = c.heap
    /\ last = NoCall
    /\ ret = NoBytes
    /\ held = NoHeld
    /\ threads = NoThreads
    /\ pool = {}

Crypt ==
    /\ last.op = "none"
    /\ UNCHANGED held
    /\ \E t \in Targets(handles), f \in Faults :
        \/ RsaPkcs1v15Encrypt(t, Msg, f)
        \/ RsaPkcs1v15Decrypt(t, Junk, f)
        \/ RsaOaepEncrypt(t, Msg, f)
        \/ RsaOaepDecrypt(t, Junk, f)

Sign ==
    /\ last.op = "none"
    /\ UNCHANGED held
    /\ \E t \in Targets(handles), h \in PipeHashes, f \in Faults :
        \/ RsaPkcs1v15Sign(t, Msg, h, f)
        \/ RsaPssSign(t, Msg, h, f)
        \/ DsaSign(t, Msg, h, f)
        \/ EcdsaSign(t, Msg, h, f)

Verify ==
    /\ last.op = "none"
    /\ UNCHANGED held
    /\ \E t \in Targets(handles), h \in PipeHashes, f \in Faults :
       \E s \in {Junk, GoodSig(View(handles, t).asn1, h)} :
        \/ RsaPkcs1v15Verify(t, s, Msg, h, f)
        \/ RsaPssVerify(t, s, Msg, h, f)
        \/ DsaVerify(t, s, Msg, h, f)
        \/ EcdsaVerify(t, s, Msg, h, f)

NextPipe == Crypt \/ Sign \/ Verify

SpecPipe == InitPipe /\ [][NextPipe]_vars

(***************************************************************************)
(* SpecLoad: the loaders, on every kind of source and every structure.     *)
(***************************************************************************)
AllSources ==
    {Source(kind, Asn1(ty, k)) :
        kind \in SourceKinds,
        ty \in {"PrivateKeyInfo", "PublicKeyInfo", "Certificate"},
        k \in AllKeys}

\* the sources a loader of structures of type ty is called with: every key
\* as a structure of that type, as bytes and as a file name; a structure of
\* another type in each of these forms; and an object of no accepted type
SourcesFor(ty) ==
    {s \in AllSources : s.kind # "other" /\ (s.obj.type = ty \/ s.obj.key = RsaKey)}
        \cup {Source("other", Asn1(ty, RsaKey))}

\* the native key construction can report an error only where it is called
FaultsFor(s, ty) ==
    IF s.kind # "other" /\ s.obj.type = ty THEN {"none", "construct"} ELSE {"none"}

\* what a PKCS#12 file may hold: a key or none, and no certificate, one, or
\* one with an extra one
Pkcs12Keys == {NoInfo} \cup {Asn1("PrivateKeyInfo", k) : k \in AllKeys}

Pkcs12Certs ==
    {<<NoInfo, <<>> >>,
     <<Asn1("Certificate", RsaKey), <<>> >>,
     <<Asn1("Certificate", RsaKey), <<Asn1("Certificate", EcKey)>> >>,
     <<Asn1("Certificate", RsaKey), <<Asn1("Certificate", EcKey), Asn1("Certificate", DsaKey)>> >>,
     <<NoInfo, <<Asn1("Certificate", EcKey), Asn1("Certificate", EcKey)>> >>}

LoadAny ==
    /\ Len(handles) < MaxHandles
    /\ \/ \E s \in SourcesFor("PrivateKeyInfo") :
            \E f \in FaultsFor(s, "PrivateKeyInfo") : LoadPrivateKey(s, NoPassword, f)
       \/ \E s \in SourcesFor("PublicKeyInfo") :
            \E f \in FaultsFor(s, "PublicKeyInfo") : LoadPublicKey(s, f)
       \/ \E s \in SourcesFor("Certificate") : LoadCertificate(s, "none")
       \/ \E kind \in {"bytes", "str"}, key_info \in Pkcs12Keys, certs \in Pkcs12Certs :
            \E f \in FaultsFor(Source(kind, key_info), "PrivateKeyInfo") :
                LoadPkcs12(Source(kind, key_info), NoPassword, key_info, certs[1],
                           certs[2], f)
       \/ LoadPkcs12(Source("other", NoInfo), NoPassword, NoInfo, NoInfo, <<>>, "none")

NextLoad == LoadAny \/ Teardown

SpecLoad == Init /\ [][NextLoad]_vars

(***************************************************************************)
(* SpecPassword: load_private_key and load_pkcs12 on encrypted and plain   *)
(* sources, with every kind of password.                                   *)
(***************************************************************************)
PasswordKeys == {RsaKey, DsaKey, DsaSha2Key, EcKey}

Passwords ==
    {NoPassword, Password("bytes", "7077"), Password("bytes", "70347373"),
     Password("str", "pw"), Password("str", "p4ss"), Password("other", "")}

Locks == {"", "7077", "70347373"}

LoadWithPassword ==
    /\ Len(handles) < MaxHandles
    /\ \E k \in PasswordKeys, kind \in {"asn1", "bytes", "str"}, lock \in Locks,
          password \in Passwords, f \in {"none", "construct"} :
        LET source == [Source(kind, Asn1("PrivateKeyInfo", k)) EXCEPT
                          !.lock = IF kind = "asn1" THEN "" ELSE lock]
        IN  \/ LoadPrivateKey(source, password, f)
            \/ /\ kind # "asn1"
               /\ LoadPkcs12(source, password, source.obj, Asn1("Certificate", k), <<>>, f)

NextPassword == LoadWithPassword \/ Teardown

SpecPassword == Init /\ [][NextPassword]_vars

(***************************************************************************)
(* SpecPolicy: every loader on every key structure, the certificate        *)
(* construction yielding a reference or none, then the derivation of the   *)
(* public key of a certificate and teardown.                               *)
(***************************************************************************)
LoadPolicy ==
    /\ Len(handles) < MaxHandles
    /\ \E k \in AllKeys :
        \/ LoadPrivateKey(Source("asn1", Asn1("PrivateKeyInfo", k)), NoPassword, "none")
        \/ LoadPublicKey(Source("asn1", Asn1("PublicKeyInfo", k)), "none")
        \/ \E kind \in {"asn1", "bytes", "str"}, f \in {"none", "certificate"} :
                LoadCertificate(Source(kind, Asn1("Certificate", k)), f)
        \/ \E key_info \in {NoInfo, Asn1("PrivateKeyInfo", RsaKey)},
                 extra \in {<<>>, <<Asn1("Certificate", k)>>},
                 f \in {"none", "construct", "certificate"} :
                LoadPkcs12(Source("bytes", key_info), NoPassword, key_info,
                           Asn1("Certificate", k), extra, f)

NextPolicy == LoadPolicy \/ Derive \/ Teardown

SpecPolicy == Init /\ [][NextPolicy]_vars

(***************************************************************************)
(* SpecRace: two threads run __del__ on the objects of one wrapper, each   *)
(* one source line at a time, with nothing that orders them.               *)
(***************************************************************************)
Shared(hs, hp, th) == [hs |-> hs, heap |-> hp, th |-> th]

\* PrivateKey.__del__ returns: to Certificate.__del__ when that called it on
\* its _public_key, else to the caller
ReturnFromKey(th) ==
    IF th.frame = "Certificate"
    THEN [th EXCEPT !.pc = "cert_pk_none", !.t = Target(th.t.i, "self")]
    ELSE [th EXCEPT !.pc = "done"]

\* CoreFoundation.CFRelease handed None: the binding rejects the argument or
\* the native service dereferences a null reference
ReleaseNone(th, outcome) == [th EXCEPT !.pc = "failed", !.exc = outcome]

\* PrivateKey.__del__: if self.sec_key_ref:
PrivateKey_del_if(s) ==
    IF View(s.hs, s.th.t).ref # 0
    THEN [s EXCEPT !.th.pc = "key_release", !.th.saw = View(s.hs, s.th.t).ref]
    ELSE [s EXCEPT !.th = ReturnFromKey(@)]

\* PrivateKey.__del__: CoreFoundation.CFRelease(self.sec_key_ref)
PrivateKey_del_release(s, outcome) ==
    IF View(s.hs, s.th.t).ref # 0
    THEN [s EXCEPT !.heap = CFReleaseRef(Ctx(s.hs, s.heap), View(s.hs, s.th.t).ref).heap,
                   !.th.pc = "key_reset"]
    ELSE [s EXCEPT !.th = ReleaseNone(@, outcome)]

PrivateKey_del_reset_Skipped(s) == [s EXCEPT !.th = ReturnFromKey(@)]

\* PrivateKey.__del__: self.sec_key_ref = None
PrivateKey_del_reset(s) ==
    [s EXCEPT !.hs = SetRef(Ctx(s.hs, s.heap), s.th.t, 0).hs, !.th = ReturnFromKey(@)]

\* Certificate.__del__: if self._public_key:
Certificate_del_if_pk(s) ==
    IF s.hs[s.th.t.i].pk = "cached" THEN [s EXCEPT !.th.pc = "cert_call_pk"]
    ELSE [s EXCEPT !.th.pc = "cert_if_ref"]

\* Certificate.__del__: self._public_key.__del__()
Certificate_del_call_pk(s) ==
    IF s.hs[s.th.t.i].pk = "cached"
    THEN [s EXCEPT !.th.pc = "key_if", !.th.t = Target(s.th.t.i, "pk")]
    ELSE [s EXCEPT !.th.pc = "failed", !.th.exc = "AttributeError"]

\* Certificate.__del__: self._public_key = None
Certificate_del_pk_none(s) ==
    [s EXCEPT !.hs[s.th.t.i].pk = "detached", !.th.pc = "cert_if_ref"]

\* Certificate.__del__: if self.sec_certificate_ref:
Certificate_del_if_ref(s) ==
    IF s.hs[s.th.t.i].ref # 0
    THEN [s EXCEPT !.th.pc = "cert_release", !.th.saw = s.hs[s.th.t.i].ref]
    ELSE [s EXCEPT !.th.pc = "done"]

\* Certificate.__del__: CoreFoundation.CFRelease(self.sec_certificate_ref)
Certificate_del_release(s, outcome) ==
    IF s.hs[s.th.t.i].ref # 0
    THEN [s EXCEPT !.heap = CFReleaseRef(Ctx(s.hs, s.heap), s.hs[s.th.t.i].ref).heap,
                   !.th.pc = "cert_reset"]
    ELSE [s EXCEPT !.th = ReleaseNone(@, outcome)]

\* Certificate.__del__: self.sec_certificate_ref = None
Certificate_del_reset(s) ==
    [s EXCEPT !.hs[s.th.t.i].ref = 0, !.th.pc = "done"]

DelLines ==
    {"key_if", "key_release", "key_reset", "cert_if_pk", "cert_call_pk", "cert_pk_none",
     "cert_if_ref", "cert_release", "cert_reset"}

\* the line a thread is at, executed
DelLine(s, outcome) ==
    CASE s.th.pc = "key_if" -> PrivateKey_del_if(s)
      [] s.th.pc = "key_release" -> PrivateKey_del_release(s, outcome)
      [] s.th.pc = "key_reset" -> PrivateKey_del_reset(s)
      [] s.th.pc = "cert_if_pk" -> Certificate_del_if_pk(s)
      [] s.th.pc = "cert_call_pk" -> Certificate_del_call_pk(s)
      [] s.th.pc = "cert_pk_none" -> Certificate_del_pk_none(s)
      [] s.th.pc = "cert_if_ref" -> Certificate_del_if_ref(s)
      [] s.th.pc = "cert_release" -> Certificate_del_release(s, outcome)
      [] s.th.pc = "cert_reset" -> Certificate_del_reset(s)

\* a thread calls t.__del__(), or the collector runs it there
BeginDel ==
    /\ \E th \in Threads, t \in Targets(handles) :
        /\ threads[th].pc \in {"idle", "done", "failed"}
        /\ threads' = [threads EXCEPT ![th] =
               IF View(handles, t).cls = "Certificate"
               THEN [Idle EXCEPT !.pc = "cert_if_pk", !.t = t, !.frame = "Certificate"]
               ELSE [Idle EXCEPT !.pc = "key_if", !.t = t]]
    /\ UNCHANGED <<handles, heap, last, ret, held, pool>>

\* the scheduler lets one thread execute its line; a null dereference in
\* the native service ends the process
StepDel ==
    /\ \E th \in Threads, outcome \in {"TypeError", "abort"} :
        /\ threads[th].pc \in DelLines
        /\ \E s \in {DelLine(Shared(handles, heap, threads[th]), outcome)} :
            /\ handles' = s.hs
            /\ heap' = s.heap
            /\ threads' = IF s.th.exc = "abort"
                          THEN [o \in Threads |->
                                   [IF o = th THEN s.th ELSE threads[o] EXCEPT
                                       !.pc = "aborted"]]
                          ELSE [threads EXCEPT ![th] = s.th]
    /\ UNCHANGED <<last, ret, held, pool>>

NextRace == BeginDel \/ StepDel

SpecRace == InitPipe /\ [][NextRace]_vars

(***************************************************************************)
(* SpecPar: two threads each call an entry point, on two distinct handle   *)
(* objects, and the scheduler interleaves their native calls.  pool holds  *)
(* the intermediate native objects of the process: which object it is (the *)
(* k-th that thread `by` created), the local-variable name it was created  *)
(* under, how often it was released (rel) and the threads that passed it   *)
(* to a native call (users).                                               *)
(***************************************************************************)
ParHashes == {"sha256"}

\* the calls the threads make: the entry points for the keys at hand, RSA
\* and EC (rsa_pss_sign and rsa_pss_verify run _decrypt and _encrypt, which
\* rsa_oaep_decrypt and rsa_oaep_encrypt run too), and the derivation of a
\* public key
ParOps ==
    (EntryOps \ {"rsa_pss_sign", "rsa_pss_verify", "dsa_sign", "dsa_verify"})
        \cup {"public_key"}

ParKeys == {RsaSmallKey, EcKey}

InitPar ==
    /\ \E ty \in {"PrivateKeyInfo", "Certificate"}, k \in ParKeys :
        LET c1 == IF ty = "Certificate" THEN _load_x509(Fresh, Asn1(ty, RsaKey), FALSE)
                  ELSE _load_key(Fresh, Asn1(ty, RsaKey), "none")
            c2 == _load_x509(c1, Asn1("Certificate", k), FALSE)
        IN  handles = c2.hs /\ heap = c2.heap
    /\ last = NoCall
    /\ ret = NoBytes
    /\ held = NoHeld
    /\ threads = NoThreads
    /\ pool = {}

\* the entry point a thread has called
EntryPoint(c, th) ==
    CASE th.op = "rsa_pkcs1v15_encrypt" -> rsa_pkcs1v15_encrypt(c, th.t, th.data, th.fault)
      [] th.op = "rsa_pkcs1v15_decrypt" -> rsa_pkcs1v15_decrypt(c, th.t, th.arg, th.fault)
      [] th.op = "rsa_oaep_encrypt" -> rsa_oaep_encrypt(c, th.t, th.data, th.fault)
      [] th.op = "rsa_oaep_decrypt" -> rsa_oaep_decrypt(c, th.t, th.arg, th.fault)
      [] th.op = "rsa_pkcs1v15_sign" ->
            rsa_pkcs1v15_sign(c, th.t, th.data, th.hash, th.fault)
      [] th.op = "ecdsa_sign" -> ecdsa_sign(c, th.t, th.data, th.hash, th.fault)
      [] th.op = "rsa_pkcs1v15_verify" ->
            rsa_pkcs1v15_verify(c, th.t, th.arg, th.data, th.hash, th.fault)
      [] th.op = "ecdsa_verify" -> ecdsa_verify(c, th.t, th.arg, th.data, th.hash, th.fault)
      [] th.op = "public_key" -> Certificate_public_key(c, th.t.i, th.fault = "copy")

\* a native reference as a caller can tell it from another: by the object
\* behind it
NativeId(hp, r) ==
    IF r \in 1..Len(hp) THEN [kind |-> hp[r].kind, kp |-> hp[r].key.kp, class |-> hp[r].class]
    ELSE [kind |-> "", kp |-> r, class |-> ""]

Observed(hp, call) == [call EXCEPT !.key = NativeId(hp, @)]

\* what a caller observes of a call: the native calls, the objects created
\* and released, and what is returned or raised
Outcome(c) ==
    [calls |-> [m \in 1..Len(c.calls) |-> Observed(c.heap, c.calls[m])],
     created |-> c.created, released |-> c.released,
     exc |-> c.exc, val |-> IF c.exc = "none" THEN c.val ELSE NoBytes, flag |-> c.flag]

\* the native calls that return a new object
CreatorFns ==
    {"CFDataCreate", "CFNumberCreate", "CFDictionaryCreate", "SecEncryptTransformCreate",
     "SecDecryptTransformCreate", "SecSignTransformCreate", "SecVerifyTransformCreate",
     "SecTransformExecute"}

\* the local variable the m-th native call of c assigns a new object to, ""
\* when it returns none
CreatedAt(c, m) ==
    LET nth == Cardinality({j \in 1..m : c.calls[j].fn \in CreatorFns})
    IN  IF c.calls[m].fn \in CreatorFns /\ nth <= Len(c.created) THEN c.created[nth]
        ELSE ""

NoObject == [by |-> 0, k |-> 0]

\* the object a local variable of the thread is bound to
Lookup(env, name) ==
    LET at == {j \in 1..Len(env) : env[j].name = name}
    IN  IF at = {} THEN NoObject
        ELSE LET b == env[CHOOSE j \in at : \A o \in at : o <= j]
             IN  [by |-> b.by, k |-> b.k]

\* the objects the call is handed, through the thread's local variables
Handed(env, call, made) ==
    {Lookup(env, x) : x \in {call.obj, call.val} \ {made}} \ {NoObject}

\* the wrappers as the thread's call in progress reads them: its own
\* certificate as it was before the call itself stored the derived key
Resume(hs, th) ==
    IF th.derived THEN [hs EXCEPT ![th.t.i].pk = "none", ![th.t.i].pkref = 0] ELSE hs

\* the pool after thread th made the native call `call`, which returned a
\* new object for the local variable `made`
PoolAfter(objs, th, env, call, made) ==
    LET used == {IF [by |-> o.by, k |-> o.k] \in Handed(env, call, made)
                 THEN [o EXCEPT !.users = @ \cup {th},
                                !.rel = IF call.fn = "CFRelease" THEN @ + 1 ELSE @]
                 ELSE o : o \in objs}
    IN  IF made = "" THEN used
        ELSE used \cup {[by |-> th, k |-> Len(env) + 1, name |-> made, rel |-> 0,
                         users |-> {}]}

\* thread th makes the m-th native call of its entry point
NativeStep(th, c, m) ==
    LET me == threads[th]
        made == CreatedAt(c, m)
        derives == c.calls[m].fn = "SecCertificateCopyPublicKey"
                   /\ c.hs[me.t.i].pk = "cached"
    IN  /\ handles' = IF derives
                      THEN [handles EXCEPT ![me.t.i].pk = "cached",
                                           ![me.t.i].pkref = Len(heap) + 1]
                      ELSE handles
        /\ heap' = IF derives THEN Append(heap, c.heap[c.hs[me.t.i].pkref]) ELSE heap
        /\ pool' = PoolAfter(pool, th, me.env, c.calls[m], made)
        /\ threads' = [threads EXCEPT ![th] =
               [me EXCEPT !.n = m,
                          !.trace = Append(@, Observed(c.heap, c.calls[m])),
                          !.env = IF made = "" THEN @
                                  ELSE Append(@, [name |-> made, by |-> th,
                                                  k |-> Len(@) + 1]),
                          !.released = IF c.calls[m].fn = "CFRelease"
                                       THEN Append(@, c.calls[m].obj) ELSE @,
                          !.derived = @ \/ derives]]

\* the entry point returns or raises
Returns(th, c) ==
    /\ threads' = [threads EXCEPT ![th] =
           [@ EXCEPT !.pc = "returned", !.exc = c.exc, !.flag = c.flag,
                     !.val = IF c.exc = "none" THEN c.val ELSE NoBytes]]
    /\ UNCHANGED <<handles, heap, pool>>

\* a thread calls an entry point on a handle no other thread is using; the
\* threads are numbered in the order of their calls
BeginOp ==
    /\ \E th \in Threads, t \in Targets(handles), op \in ParOps, h \in ParHashes :
        /\ threads[th].pc = "idle"
        /\ \A o \in Threads : o < th => threads[o].pc # "idle"
        /\ \A o \in Threads \ {th} : threads[o].t # t
        /\ op = "public_key" => View(handles, t).cls = "Certificate"
        /\ \E me \in {[Idle EXCEPT !.pc = "running", !.t = t, !.op = op,
                                    !.arg = IF op \in DecryptOps \cup VerifyOps THEN Junk
                                            ELSE NoBytes,
                                    !.data = IF op \in DecryptOps \cup {"public_key"}
                                             THEN NoBytes ELSE Msg,
                                    !.hash = IF op \in SignOps \cup VerifyOps THEN h ELSE "",
                                    !.hs0 = handles, !.heap0 = heap]} :
            threads' = [threads EXCEPT ![th] = me]
    /\ UNCHANGED <<handles, heap, last, ret, held, pool>>

\* the scheduler lets one thread make its next native call, or return
StepOp ==
    /\ \E th \in Threads :
        /\ threads[th].pc = "running"
        /\ \E me \in {threads[th]}, c0 \in {Ctx(Resume(handles, threads[th]), heap)} :
           \E c \in {EntryPoint(c0, me)} :
            IF me.n < Len(c.calls) THEN NativeStep(th, c, me.n + 1)
            ELSE Returns(th, c)
    /\ UNCHANGED <<last, ret, held>>

NextPar == BeginOp \/ StepOp

SpecPar == InitPar /\ [][NextPar]_vars

(***************************************************************************)
(* SpecRound: a private key and the public key or certificate of the same  *)
(* source key; the caller signs or encrypts, possibly alters one byte of   *)
(* what it got, and hands it to a verify or decrypt entry point.           *)
(***************************************************************************)
RoundKeys == {RsaKey, RsaSmallKey, DsaKey, EcKey}

Msgs == {Raw(<<7>>), Raw(<<7, 9>>), Raw(<<9, 7, 9>>)}

InitRound ==
    /\ \E k \in RoundKeys, ty \in {"PublicKeyInfo", "Certificate"} :
        LET c1 == _load_key(Fresh, Asn1("PrivateKeyInfo", k), "none")
            c2 == IF ty = "Certificate" THEN _load_x509(c1, Asn1(ty, k), FALSE)
                  ELSE _load_key(c1, Asn1(ty, k), "none")
        IN  handles = c2.hs /\ heap = c2.heap
    /\ last = NoCall
    /\ ret = NoBytes
    /\ held = NoHeld
    /\ threads = NoThreads
    /\ pool = {}

Keep ==
    held' = IF last'.exc = "none"
            THEN [val |-> ret', op |-> last'.op, hash |-> last'.hash, data |-> last'.data,
                  kp |-> last'.k.kp, mut |-> FALSE]
            ELSE NoHeld

Produce ==
    /\ last.op = "none"
    /\ \E t \in Targets(handles), d \in Msgs, h \in HashNames :
        \/ RsaPkcs1v15Encrypt(t, d, "none") /\ h = "sha1"
        \/ RsaOaepEncrypt(t, d, "none") /\ h = "sha1"
        \/ RsaPkcs1v15Sign(t, d, h, "none")
        \/ RsaPssSign(t, d, h, "none")
        \/ DsaSign(t, d, h, "none")
        \/ EcdsaSign(t, d, h, "none")
    /\ Keep

Tamper ==
    /\ last.op \in SignOps \cup EncryptOps
    /\ held.val # NoBytes
    /\ ~held.mut
    /\ held' = [held EXCEPT !.val = Mutate(@), !.mut = TRUE]
    /\ UNCHANGED <<handles, heap, last, ret, threads, pool>>

\* how the native service may answer the execute stage of a verification: a
\* signature with a byte changed need not be well formed any more (the DER
\* framing of a DSA or ECDSA signature, an RSA value not below the modulus),
\* and the service may report an error for it instead of computing an answer
ExecuteAnswers == IF held.mut THEN {"none", "execute"} ELSE {"none"}

Consume ==
    /\ last.op \in SignOps \cup EncryptOps
    /\ held.val # NoBytes
    /\ UNCHANGED held
    /\ \E t \in Targets(handles), d \in Msgs, h \in HashNames, f \in ExecuteAnswers :
        \/ RsaPkcs1v15Decrypt(t, held.val, "none") /\ h = "sha1" /\ d = held.data
                                                    /\ f = "none"
        \/ RsaOaepDecrypt(t, held.val, "none") /\ h = "sha1" /\ d = held.data /\ f = "none"
        \/ RsaPkcs1v15Verify(t, held.val, d, h, f)
        \/ RsaPssVerify(t, held.val, d, h, f)
        \/ DsaVerify(t, held.val, d, h, f)
        \/ EcdsaVerify(t, held.val, d, h, f)

NextRound == Produce \/ Tamper \/ Consume

SpecRound == InitRound /\ [][NextRound]_vars

(***************************************************************************)
(* Properties of Spec                                                      *)
(***************************************************************************)
KeyRefs == {r \in 1..Len(heap) : heap[r].kind = "key"}

KeyTargets == {t \in Targets(handles) : View(handles, t).cls # "Certificate"}

\* the key objects that hold reference r
Holders(r) == {t \in KeyTargets : View(handles, t).ref = r}

ReleaseOf(r) == Call("CFRelease", r, "", "", "", 0)

\* C1: a key reference held by a PrivateKey / PublicKey is unreleased; over
\* any sequence of teardowns CFRelease is called on it exactly once, by the
\* first teardown, which leaves sec_key_ref empty; a teardown of an empty
\* handle makes no native call.
C1_KeyReleasedExactlyOnce ==
    /\ \A r \in KeyRefs : heap[r].rel = (IF Holders(r) = {} THEN 1 ELSE 0)
    /\ (last.op = "__del__" /\ last.pre.cls # "Certificate") =>
          /\ View(handles, last.t).ref = 0
          /\ last.calls = (IF last.pre.ref # 0 THEN <<ReleaseOf(last.pre.ref)>> ELSE <<>>)

\* a second teardown of a key whose reference the first one released
C1_Witness ==
    /\ last.op = "__del__"
    /\ last.pre.cls # "Certificate"
    /\ last.pre.ref = 0
    /\ last.calls = <<>>
    /\ \E r \in KeyRefs : heap[r].rel = 1 /\ Holders(r) = {}

\* a native call that names a reference which is None or already released
StaleCall(call) ==
    /\ call.fn # "CFRelease"
    /\ call.key # -1
    /\ NativeKey(heap, call.key).kind = "none"

\* C2: an entry point called with a torn-down handle fails and passes no
\* empty or released reference to the native service.
C2_TornDownHandleFailsBeforeNative ==
    (last.op \in EntryOps /\ last.pre.ref = 0) =>
        /\ last.exc # "none"
        /\ \A n \in 1..Len(last.calls) : ~StaleCall(last.calls[n])

CopiesOf(calls, r) ==
    {n \in 1..Len(calls) : calls[n].fn = "SecCertificateCopyPublicKey" /\ calls[n].key = r}

\* loading a certificate copies no public key
CertificateBuiltBare ==
    last.op = "load_certificate" =>
        /\ \A n \in 1..Len(last.calls) : last.calls[n].fn # "SecCertificateCopyPublicKey"
        /\ last.exc = "none" => handles[Len(handles)].pk = "none"

\* a step from a state where the live certificate i holds a derived key:
\* the key stays the one it holds, unless the step tears the certificate
\* down, and no public key is copied from the certificate again
CachedKeyKept(i) ==
    (handles[i].cls = "Certificate" /\ handles[i].ref # 0 /\ handles[i].pk = "cached") =>
        /\ handles'[i].pk = "cached" \/ (handles'[i].ref = 0 /\ last'.op = "__del__")
        /\ handles'[i].pk = "cached" => handles'[i].pkref \in {handles[i].pkref, 0}
        /\ CopiesOf(last'.calls, handles[i].ref) = {}
        /\ last'.t.i = i => Len(heap') = Len(heap)

\* a step from a state where certificate i holds no derived key copies the
\* public key at most once
CopiedOnce(i) ==
    handles[i].cls = "Certificate" =>
        Cardinality(CopiesOf(last'.calls, handles[i].ref)) <= 1

\* C11: loading a certificate makes no copy-public-key call; on a live
\* certificate the copy succeeds at most once: once a derived key is cached,
\* every access leaves that same key in place and copies nothing, until the
\* certificate is torn down.
C11_PublicKeyDerivedAtMostOnce ==
    [][/\ CertificateBuiltBare'
       /\ \A i \in 1..Len(handles) : CachedKeyKept(i) /\ CopiedOnce(i)]_vars

\* an access to a live certificate that already holds its derived key
C11_Witness ==
    /\ last.op \in AttrNames \cup {"public_key"} \cup EntryOps
    /\ last.pre.cls = "Certificate"
    /\ last.pre.ref # 0
    /\ last.pre.pk = "cached"
    /\ last.pre.pkref # 0
    /\ last.calls = <<>> \/ last.op \in EntryOps
    /\ handles[last.t.i].pkref = last.pre.pkref

\* the wrappers that hold reference r
Owners(r) == {t \in Targets(handles) : View(handles, t).ref = r}

\* C12: every unreleased native key or certificate reference is held by
\* exactly one wrapper, no wrapper holds a released reference, and the
\* PublicKey derived from a certificate holds none once the certificate is
\* torn down.
C12_OneOwnerPerReference ==
    /\ \A r \in 1..Len(heap) : heap[r].rel = 0 => Cardinality(Owners(r)) = 1
    /\ \A t \in Targets(handles) :
          View(handles, t).ref # 0 => heap[View(handles, t).ref].rel = 0
    /\ \A i \in 1..Len(handles) :
          (handles[i].cls = "Certificate" /\ handles[i].ref = 0) => handles[i].pkref = 0

\* a torn-down certificate whose derived key was released with it
C12_Witness ==
    /\ last.op = "__del__"
    /\ last.pre.cls = "Certificate"
    /\ last.pre.pk = "cached"
    /\ last.pre.pkref # 0
    /\ handles[last.t.i].ref = 0
    /\ handles[last.t.i].pkref = 0
    /\ heap[last.pre.pkref].rel = 1
    /\ heap[last.pre.ref].rel = 1

\* C13: on every handle, at every point of its life, teardown included,
\* reading algo, bit_size or byte_size returns the value of the handle's
\* structured metadata and makes no native call.
C13_MetadataReadsAreLocal ==
    last.op \in {"algo", "bit_size", "byte_size"} =>
        /\ last.exc = "none"
        /\ last.calls = <<>>
        /\ last.got.str = (IF last.op = "algo" THEN last.k.algorithm ELSE "")
        /\ last.got.num = (CASE last.op = "bit_size" -> last.k.bit_size
                             [] last.op = "byte_size" -> last.k.byte_size
                             [] OTHER -> 0)

\* the releases a teardown of the certificate seen in last.pre has to make
DerivedKeyRelease ==
    IF last.pre.pk = "cached" /\ last.pre.pkref # 0
    THEN <<ReleaseOf(last.pre.pkref)>>
    ELSE <<>>

OwnRelease == IF last.pre.ref # 0 THEN <<ReleaseOf(last.pre.ref)>> ELSE <<>>

\* C16: the teardown of a certificate releases the reference of its derived
\* key, if it holds one, and then its own reference; neither is released a
\* second time by a later teardown of the key or of the certificate; a
\* certificate with no derived key releases only its own reference.
C16_DerivedKeyReleasedBeforeCertificate ==
    /\ \A r \in 1..Len(heap) : heap[r].rel <= 1
    /\ (last.op = "__del__" /\ last.pre.cls = "Certificate") =>
          /\ last.calls = DerivedKeyRelease \o OwnRelease
          /\ handles[last.t.i].ref = 0
          /\ handles[last.t.i].pkref = 0
          /\ handles[last.t.i].pk # "cached"
          /\ last.pre.ref # 0 => heap[last.pre.ref].rel = 1
          /\ last.pre.pkref # 0 => heap[last.pre.pkref].rel = 1

\* a certificate torn down while it holds a live derived key
C16_Witness ==
    /\ last.op = "__del__"
    /\ last.pre.cls = "Certificate"
    /\ last.pre.pk = "cached"
    /\ last.pre.pkref # 0
    /\ last.pre.ref # 0
    /\ last.calls = <<ReleaseOf(last.pre.pkref), ReleaseOf(last.pre.ref)>>

(***************************************************************************)
(* Properties of SpecPipe                                                  *)
(***************************************************************************)
\* C3: when a staged operation returns or raises, every native object it
\* created or received has been released exactly once.
C3_EveryNativeObjectReleasedOnce ==
    last.op \in StagedOps =>
        /\ \A n \in 1..Len(last.created) : Count(last.created[n], last.released) = 1
        /\ \A n \in 1..Len(last.released) : InSeq(last.released[n], last.created)

\* C4: a sign or verify entry point given a hash name outside the accepted
\* set, on a live handle, raises ValueError before any native call.
C4_BadHashRejectedBeforeNative ==
    (last.op \in SignOps \cup VerifyOps /\ last.hash \notin HashNames /\ last.pre.ref # 0) =>
        /\ last.exc = "ValueError"
        /\ last.calls = <<>>

\* the algorithm an entry point is for
OpAlgo(op) ==
    IF op \in {"dsa_sign", "dsa_verify"} THEN "dsa"
    ELSE IF op \in {"ecdsa_sign", "ecdsa_verify"} THEN "ec"
    ELSE "rsa"

\* C5: an entry point given a live handle of another algorithm raises
\* ValueError before any native call.
C5_AlgoMismatchRejectedBeforeNative ==
    (last.op \in EntryOps /\ last.pre.ref # 0 /\ last.k.algorithm # OpAlgo(last.op)) =>
        /\ last.exc = "ValueError"
        /\ last.calls = <<>>

PlainVerifyOps == {"rsa_pkcs1v15_verify", "dsa_verify", "ecdsa_verify"}

\* the verify transform was constructed, configured and executed without a
\* native error
VerifyExecuted == InSeq("res", last.created)

\* a native stage of _verify reported an error
VerifyNativeFailure ==
    /\ \E n \in 1..Len(last.calls) : last.calls[n].fn = "SecVerifyTransformCreate"
    /\ ~VerifyExecuted

\* C6: _verify ends in SignatureError exactly when every native stage
\* succeeded and the native boolean is false; a native failure at any stage
\* ends in OSError; a true boolean ends in no failure.
C6_SignatureInvalidIffNativeFalse ==
    last.op \in PlainVerifyOps =>
        /\ (last.exc = "SignatureError") <=> (VerifyExecuted /\ ~last.flag)
        /\ VerifyNativeFailure => last.exc = "OSError"
        /\ (VerifyExecuted /\ last.flag) => last.exc = "none"

\* a verify whose transform ran to the end and answered false
C6_Witness ==
    /\ last.op \in PlainVerifyOps
    /\ VerifyExecuted
    /\ ~last.flag
    /\ last.exc = "SignatureError"
    /\ last.fault = "none"

\* C14: load_pkcs12 returns a key exactly when the file holds one, a leaf
\* certificate exactly when it holds one, and one extra certificate per
\* decoded extra certificate, in decode order, duplicates kept; a file with
\* no key or no leaf certificate is no failure.
C14_Pkcs12BundleMirrorsContainer ==
    (last.op = "load_pkcs12" /\ last.src \in {"bytes", "str"}) =>
        LET key_info == last.got.parsed[1]
            cert_info == last.got.parsed[2]
            extra_certs_info == last.got.parsed[3]
            bundle == last.got
        IN  /\ last.ty = "" => last.exc = "none"
            /\ last.exc = "none" =>
                  /\ (bundle.key # 0) <=> (key_info # NoInfo)
                  /\ bundle.key # 0 =>
                        /\ handles[bundle.key].cls = "PrivateKey"
                        /\ handles[bundle.key].asn1 = key_info.key
                  /\ (bundle.cert # 0) <=> (cert_info # NoInfo)
                  /\ bundle.cert # 0 =>
                        /\ handles[bundle.cert].cls = "Certificate"
                        /\ handles[bundle.cert].asn1 = cert_info.key
                  /\ Len(bundle.extra) = Len(extra_certs_info)
                  /\ \A n \in 1..Len(bundle.extra) :
                        /\ handles[bundle.extra[n]].cls = "Certificate"
                        /\ handles[bundle.extra[n]].asn1 = extra_certs_info[n].key
                        /\ bundle.extra[n] \notin {bundle.key, bundle.cert}
                        /\ \A m \in 1..(n - 1) : bundle.extra[m] < bundle.extra[n]

\* a file with no key and no leaf certificate but the same extra
\* certificate twice
C14_Witness ==
    /\ last.op = "load_pkcs12"
    /\ last.exc = "none"
    /\ last.got.key = 0
    /\ last.got.cert = 0
    /\ Len(last.got.extra) = 2
    /\ last.got.parsed[3][1] = last.got.parsed[3][2]

Loaders == {"load_certificate", "load_private_key", "load_public_key", "load_pkcs12"}

\* the pre-parsed structure a loader accepts; load_pkcs12 accepts none
AcceptedType(op) ==
    CASE op = "load_certificate" -> "Certificate"
      [] op = "load_private_key" -> "PrivateKeyInfo"
      [] op = "load_public_key" -> "PublicKeyInfo"
      [] OTHER -> "none"

\* C15: a loader given a source that is neither a byte string, a file name
\* nor the structure it accepts raises ValueError, before any native call.
C15_BadSourceIsValueError ==
    (/\ last.op \in Loaders
     /\ \/ last.src = "other"
        \/ last.src = "asn1" /\ last.ty # AcceptedType(last.op))
    => (last.exc = "ValueError" /\ last.calls = <<>>)

\* the place of object x in sequence s
PlaceIn(x, s) == CHOOSE n \in 1..Len(s) : s[n] = x

CleanupOrder(op) ==
    IF op \in EncryptOps \cup DecryptOps \cup {"rsa_pss_sign", "rsa_pss_verify"}
    THEN <<"cf_data", "sec_transform">>
    ELSE <<"sec_transform", "cf_signature", "cf_data", "cf_hash_length">>

CreatedInLast(x) == InSeq(x, last.created)

StageOf(call) ==
    CASE call.fn \in {"SecEncryptTransformCreate", "SecDecryptTransformCreate",
                      "SecSignTransformCreate", "SecVerifyTransformCreate"} -> "construct"
      [] call.fn = "SecTransformSetAttribute" /\ call.attr = "kSecDigestTypeAttribute"
            -> "digest_type"
      [] call.fn = "SecTransformSetAttribute" /\ call.attr = "kSecDigestLengthAttribute"
            -> "digest_length"
      [] call.fn = "SecTransformSetAttribute" /\ call.attr = "kSecPaddingKey" -> "padding"
      [] call.fn = "SecTransformSetAttribute" /\ call.attr = "kSecTransformInputAttributeName"
            -> "input"
      [] call.fn = "SecTransformSetAttribute" -> "attribute"
      [] call.fn = "SecTransformExecute" -> "execute"
      [] call.fn \in {"cf_data_to_bytes", "CFBooleanGetValue"} -> "extract"
      [] OTHER -> ""

IsStage(call) == StageOf(call) # ""

\* the stages of the transform pipeline in the order the last call made them
StagesOf(calls) ==
    LET staged == SelectSeq(calls, IsStage)
    IN  [n \in 1..Len(staged) |-> StageOf(staged[n])]

\* the order C18 gives for a call of entry point op with the named hash
StageOrder(op, hash) ==
    IF op \in {"rsa_oaep_encrypt", "rsa_oaep_decrypt", "rsa_pss_sign", "rsa_pss_verify"}
    THEN <<"construct", "padding", "input", "execute", "extract">>
    ELSE <<"construct", "digest_type">>
         \o (IF hash \in Sha2Names THEN <<"digest_length">> ELSE <<>>)
         \o (IF OpAlgo(op) = "rsa" THEN <<"padding">> ELSE <<>>)
         \o <<"input", "execute", "extract">>

\* the last call ran its pipeline to the extract step
RanToExtract ==
    /\ last.op \in StagedOps
    /\ \E n \in 1..Len(last.calls) : StageOf(last.calls[n]) = "extract"

\* C18: a run of _sign or _verify that succeeds makes its native calls in the
\* order construct, digest type, digest length (SHA-2 only), padding (RSA
\* only), input data, execute, extract; a run of _encrypt or _decrypt in the
\* order construct, padding, input data, execute, extract with no digest
\* attribute; nothing is set after execute and execute runs once.
C18_StagesInOrder ==
    RanToExtract => StagesOf(last.calls) = StageOrder(last.op, last.hash)

\* an RSA signature with a SHA-2 hash: all seven stages
C18_Witness ==
    /\ last.op = "rsa_pkcs1v15_sign" /\ last.exc = "none" /\ last.hash = "sha256"
    /\ Len(StagesOf(last.calls)) = 7

\* the stages a transform pipeline is built and run by
BuildStages == {"construct", "digest_type", "digest_length", "padding", "input",
                "attribute", "execute"}

ExecuteResults == {"ciphertext", "plaintext", "res", "cf_signature"}

\* the n-th native call of the last operation is a stage that reported an
\* error: the stage the fault was placed at, a construction that returned
\* no transform, or an execution that returned no result
StageFailedAt(n) ==
    /\ last.op \in StagedOps
    /\ n \in 1..Len(last.calls)
    /\ \/ StageOf(last.calls[n]) = last.fault
       \/ /\ StageOf(last.calls[n]) = "construct"
          /\ ~InSeq("sec_transform", last.created)
       \/ /\ StageOf(last.calls[n]) = "execute"
          /\ \A x \in ExecuteResults : ~InSeq(x, last.created)

\* C19: when a stage of the pipeline reports an error the operation raises
\* the native-call failure (OSError) and makes no construct, set-attribute or
\* execute call after it: only releases follow.
C19_NoStageAfterNativeError ==
    \A n \in 1..Len(last.calls) :
        StageFailedAt(n) =>
            /\ last.exc = "OSError"
            /\ \A m \in (n + 1)..Len(last.calls) : last.calls[m].fn = "CFRelease"

\* a verification whose digest-length stage failed after three objects were
\* created, all of which are then released
C19_Witness ==
    /\ last.op = "ecdsa_verify" /\ last.fault = "digest_length"
    /\ \E n \in 1..Len(last.calls) :
          /\ StageFailedAt(n)
          /\ Len(last.calls) = n + 3

\* rsa_pss_sign was called on a private-key wrapper of an RSA key
PssSignOnRsaKey ==
    /\ last.op = "rsa_pss_sign"
    /\ last.pre.cls = "PrivateKey"
    /\ KeyAlgo(last.pre) = "rsa"

\* the hash byte lengths C20 lists, 0 for a name it does not list
PssLengthOf(h) ==
    CASE h = "sha1" -> 20 [] h = "sha224" -> 28 [] h = "sha256" -> 32
      [] h = "sha384" -> 48 [] h = "sha512" -> 64 [] OTHER -> 0

StagesWith(stage) == {n \in 1..Len(last.calls) : StageOf(last.calls[n]) = stage}

\* C20: rsa_pss_sign on an RSA private key calls the padding primitive once,
\* with the hash name, the listed hash byte length (0 for an unlisted name),
\* the key bit size and the message, before any native call; when the
\* primitive accepts, one decrypt-direction pipeline follows, with the "none"
\* padding, no digest attribute and the encoded block as input, and its
\* output is the result; when the primitive rejects, no native call is made.
C20_PssSignPadsThenRawDecrypts ==
    PssSignOnRsaKey =>
        /\ last.prims = << [fn |-> "add_pss_padding", hash |-> last.hash,
                            len |-> PssLengthOf(last.hash),
                            bits |-> KeyBitSize(last.pre), data |-> last.data,
                            at |-> 0] >>
        /\ PssRejects(last.hash, PssLengthOf(last.hash)) =>
                last.exc = "ValueError" /\ last.calls = <<>>
        /\ ~PssRejects(last.hash, PssLengthOf(last.hash)) =>
            /\ Cardinality(StagesWith("construct")) = 1
            /\ \A n \in StagesWith("construct") :
                    last.calls[n].fn = "SecDecryptTransformCreate"
            /\ StagesWith("digest_type") \cup StagesWith("digest_length") = {}
            /\ \A n \in StagesWith("padding") : last.calls[n].val = "kSecPaddingNoneKey"
            /\ last.exc = "none" =>
                /\ StagesOf(last.calls) = StageOrder(last.op, last.hash)
                /\ ret = NativeDecryptOut(NativeKey(heap, last.pre.ref), "kSecPaddingNoneKey",
                                          add_pss_padding(last.hash, PssLengthOf(last.hash),
                                                          KeyBitSize(last.pre), last.data))

\* a PSS signature made with SHA-384
C20_Witness ==
    /\ PssSignOnRsaKey /\ last.hash = "sha384" /\ last.exc = "none"
    /\ ret # NoBytes /\ Len(last.prims) = 1

\* the entry points built on _sign and _verify
DigestOps == {"rsa_pkcs1v15_sign", "dsa_sign", "ecdsa_sign",
              "rsa_pkcs1v15_verify", "dsa_verify", "ecdsa_verify"}

\* the digest identifier and digest length C22 gives for a hash name
DigestTypeOf(h) ==
    CASE h = "md5" -> "kSecDigestMD5" [] h = "sha1" -> "kSecDigestSHA1"
      [] h \in {"sha224", "sha256", "sha384", "sha512"} -> "kSecDigestSHA2"
      [] OTHER -> ""

DigestLengthOf(h) ==
    CASE h = "sha224" -> 224 [] h = "sha256" -> 256 [] h = "sha384" -> 384
      [] h = "sha512" -> 512 [] OTHER -> 0

\* C22: in _sign and _verify, md5 and sha1 set the digest type to their own
\* identifier and never set the digest length; sha224, sha256, sha384 and
\* sha512 set the digest type to the SHA-2 identifier and the digest length
\* to 224, 256, 384 and 512; both operations use the same mapping.
C22_DigestAttributesFollowHashName ==
    (last.op \in DigestOps /\ last.hash \in HashNames) =>
        /\ \A n \in StagesWith("digest_type") :
                last.calls[n].val = DigestTypeOf(last.hash)
        /\ \A n \in StagesWith("digest_length") :
                /\ last.hash \in {"sha224", "sha256", "sha384", "sha512"}
                /\ last.calls[n].num = DigestLengthOf(last.hash)
        /\ RanToExtract =>
                /\ Cardinality(StagesWith("digest_type")) = 1
                /\ Cardinality(StagesWith("digest_length")) =
                        (IF DigestLengthOf(last.hash) = 0 THEN 0 ELSE 1)
                /\ last.attrs.dig = DigestTypeOf(last.hash)
                /\ last.attrs.num = DigestLengthOf(last.hash)

\* a DSA signature with sha1 and an EC verification with sha384
C22_Witness ==
    /\ last.op \in DigestOps /\ RanToExtract
    /\ \/ last.op = "dsa_sign" /\ last.hash = "sha1" /\ StagesWith("digest_length") = {}
       \/ last.op = "ecdsa_verify" /\ last.hash = "sha384"
                                   /\ StagesWith("digest_length") # {}

\* C23: in _sign and _verify the padding attribute is set, to the PKCS1
\* padding key, exactly when the handle's algorithm is rsa; for a dsa or ec
\* handle no padding attribute is set.
C23_PaddingOnlyForRsa ==
    last.op \in DigestOps =>
        /\ \A n \in StagesWith("padding") :
                /\ last.k.algorithm = "rsa"
                /\ last.calls[n].val = "kSecPaddingPKCS1Key"
        /\ RanToExtract =>
                /\ Cardinality(StagesWith("padding")) =
                        (IF last.k.algorithm = "rsa" THEN 1 ELSE 0)
                /\ last.attrs.pad = (IF last.k.algorithm = "rsa"
                                     THEN "kSecPaddingPKCS1Key" ELSE "")

\* an RSA signature made with the padding attribute
C23_Witness ==
    /\ last.op = "rsa_pkcs1v15_sign" /\ RanToExtract
    /\ last.k.algorithm = "rsa"
    /\ Cardinality(StagesWith("padding")) = 1

(***************************************************************************)
(* Properties of SpecPassword                                              *)
(***************************************************************************)
\* what the native key construction is handed for the private key k,
\* whatever the password
PrivateKeyArguments(k) ==
    [dict |-> {<<"kSecAttrKeyType", CASE k.algorithm = "rsa" -> "kSecAttrKeyTypeRSA"
                                      [] k.algorithm = "dsa" -> "kSecAttrKeyTypeDSA"
                                      [] k.algorithm = "ec" -> "kSecAttrKeyTypeECDSA"
                                      [] OTHER -> "">>,
               <<"kSecAttrKeyClass", "kSecAttrKeyClassPrivate">>,
               <<"kSecAttrCanSign", "kCFBooleanTrue">>,
               <<"kSecAttrCanVerify", "kCFBooleanTrue">>},
     bytes |-> [form |-> "unwrapped", key |-> k]]

\* the texts the password of the last call is known by
PasswordTexts ==
    IF last.password.kind = "none" THEN {}
    ELSE {last.password.text, EncodedPassword(last.password).text}

\* C24: in load_private_key and load_pkcs12 the arguments of the native key
\* construction (the attribute set and the encoded key) are determined by
\* the structured key the parser returned alone, so two calls that differ
\* only in the password hand over the same arguments; no attribute is the
\* password.
C24_PasswordStopsAtParser ==
    last.op \in {"load_private_key", "load_pkcs12"} =>
        /\ Len(last.keyargs) <= 1
        /\ \A n \in 1..Len(last.keyargs) :
                /\ last.keyargs[n] = PrivateKeyArguments(last.k)
                /\ \A pair \in last.keyargs[n].dict : pair[2] \notin PasswordTexts

\* a key file loaded with the password "pw" given as a unicode string, which
\* reaches the parser encoded
C24_Witness ==
    /\ last.op = "load_private_key" /\ last.src = "bytes" /\ last.exc = "none"
    /\ last.password = Password("str", "pw")
    /\ Len(last.keyargs) = 1

(***************************************************************************)
(* Properties of SpecPolicy                                                *)
(***************************************************************************)
\* the Algorithm Policy: RSA, DSA without a SHA-2 hash association, or EC on
\* one of the three named curves
MeetsPolicy(k) ==
    \/ k.algorithm = "rsa"
    \/ k.algorithm = "dsa" /\ k.hash_algo # "sha2"
    \/ k.algorithm = "ec" /\ k.curve_type = "named"
       /\ k.curve \in {"secp256r1", "secp384r1", "secp521r1"}

\* C25: in every reachable state every PrivateKey or PublicKey wrapper, the
\* PublicKey a Certificate derived included, refers to a key that meets the
\* Algorithm Policy.
C25_EveryKeyHandleMeetsPolicy ==
    \A t \in Targets(handles) :
        View(handles, t).cls \in {"PrivateKey", "PublicKey"}
            => MeetsPolicy(View(handles, t).asn1)

\* the Certificate wrappers the last load handed to its caller
ReturnedCertificates ==
    IF last.exc # "none" THEN {}
    ELSE IF last.op = "load_certificate" THEN {Len(handles)}
    ELSE ({last.got.cert} \cup {last.got.extra[n] : n \in 1..Len(last.got.extra)}) \ {0}

\* C26: load_certificate and the certificate path of load_pkcs12 either fail
\* or return Certificates that hold a non-empty native reference, also when
\* the native certificate construction yields no reference; the wrapped
\* encoding is released exactly once on either outcome.
C26_CertificateLoadReturnsReferenceOrFails ==
    last.op \in {"load_certificate", "load_pkcs12"} =>
        /\ \A i \in ReturnedCertificates : handles[i].ref # 0
        /\ Count("cf_source", last.released) = Count("cf_source", last.created)

(***************************************************************************)
(* Properties of SpecRace                                                  *)
(***************************************************************************)
ReleaseLines == {"key_release", "cert_release"}
ResetLines == {"key_reset", "cert_reset"}

\* the step is thread th executing its CFRelease line on reference r
ReleasedBy(th, r) ==
    /\ threads[th].pc \in ReleaseLines
    /\ threads'[th].pc \in ResetLines
    /\ heap'[r].rel = heap[r].rel + 1

\* C27: teardown is a check, a release and a reset that nothing holds
\* together: a thread that passed the emptiness check releases the reference
\* although another thread released it already, whenever that thread has
\* not reached its reset yet; this window is the only way to a second
\* release, and it is open (the witness).
C27_SecondReleaseInsideRaceWindow ==
    [][\A th \in Threads, r \in 1..Len(heap) :
          ReleasedBy(th, r) =>
              /\ threads[th].saw = r
              /\ heap[r].rel >= 1 =>
                     \E o \in Threads \ {th} :
                         threads[o].pc \in ResetLines /\ threads[o].saw = r]_vars

\* both threads passed the emptiness check on the same object and each made
\* the native release of the same reference
C27_Witness ==
    \E r \in 1..Len(heap) :
        /\ heap[r].rel = 2
        /\ \A th \in Threads :
               /\ threads[th].pc \in ResetLines
               /\ threads[th].saw = r
               /\ threads[th].t = threads[1].t

(***************************************************************************)
(* Properties of SpecPar                                                   *)
(***************************************************************************)
\* what the call of a thread does when it runs alone, from the state the
\* process was in when the thread made it
Alone(me) == Outcome(EntryPoint(Ctx(me.hs0, me.heap0), me))

\* the local variables thread th assigned a new native object to, in order
MadeBy(th) == [j \in 1..Len(threads[th].env) |-> threads[th].env[j].name]

\* C28: under every interleaving of two calls on distinct handles, what each
\* call has done so far is what it does when it runs alone (the same native
\* calls, the same objects created and released, the same result or
\* exception), and every intermediate native object is passed to native
\* calls, and released, by the call that created it only, at most once.
C28_CallsOnDistinctHandlesDoNotInterfere ==
    /\ \A th \in Threads :
           LET me == threads[th]
               alone == Alone(me)
           IN  me.pc \in {"running", "returned"} =>
                   /\ me.n <= Len(alone.calls)
                   /\ me.trace = SubSeq(alone.calls, 1, me.n)
                   /\ me.pc = "returned" =>
                          /\ me.n = Len(alone.calls)
                          /\ me.exc = alone.exc
                          /\ me.val = alone.val
                          /\ me.flag = alone.flag
                          /\ MadeBy(th) = alone.created
                          /\ me.released = alone.released
    /\ \A o \in pool :
           /\ o.users \subseteq {o.by}
           /\ o.rel <= 1

\* both calls are under way, each holds an intermediate object it has not
\* released yet, and one of them has derived and stored the public key of
\* its certificate while the other was running
C28_Witness ==
    /\ \A th \in Threads :
           /\ threads[th].pc = "running"
           /\ threads[th].n >= 2
           /\ \E o \in pool : o.by = th /\ o.rel = 0
    /\ \E th \in Threads : threads[th].derived /\ threads[th].op \in VerifyOps
    /\ threads[1].t.i # threads[2].t.i

(***************************************************************************)
(* Properties of SpecRound                                                 *)
(***************************************************************************)
VerifyFor(op) ==
    CASE op = "rsa_pkcs1v15_sign" -> "rsa_pkcs1v15_verify"
      [] op = "rsa_pss_sign" -> "rsa_pss_verify"
      [] op = "dsa_sign" -> "dsa_verify"
      [] op = "ecdsa_sign" -> "ecdsa_verify"
      [] OTHER -> "none"

DecryptFor(op) ==
    CASE op = "rsa_pkcs1v15_encrypt" -> "rsa_pkcs1v15_decrypt"
      [] op = "rsa_oaep_encrypt" -> "rsa_oaep_decrypt"
      [] OTHER -> "none"

\* the last call was the verify entry point matching the sign call that made
\* held, on a public key or certificate of the same source key, with the
\* same message and hash
VerifiesHeld ==
    /\ held.op \in SignOps
    /\ last.op = VerifyFor(held.op)
    /\ last.arg = held.val
    /\ last.k.kp = held.kp
    /\ last.hash = held.hash
    /\ last.data = held.data
    /\ last.pre.cls \in {"PublicKey", "Certificate"}

\* C7: verifying, with the public key or certificate of the same source
\* key, the signature a sign entry point made of the same message with the
\* same hash ends in no failure.
C7_SignThenVerifySucceeds ==
    (VerifiesHeld /\ ~held.mut) => last.exc = "none"

\* a PSS signature verified through the certificate
C7_Witness ==
    /\ VerifiesHeld
    /\ ~held.mut
    /\ held.op = "rsa_pss_sign"
    /\ held.hash = "sha384"
    /\ last.pre.cls = "Certificate"
    /\ last.exc = "none"

EncryptOverhead(op) == IF op = "rsa_oaep_encrypt" THEN OaepOverhead ELSE Pkcs1Overhead

\* C8: an RSA public key or certificate encrypts every plaintext shorter
\* than the scheme's maximum, and the private key of the same source key
\* decrypts the result to the plaintext.
C8_EncryptThenDecryptIsIdentity ==
    /\ (/\ last.op \in EncryptOps
        /\ last.k.algorithm = "rsa"
        /\ last.pre.cls \in {"PublicKey", "Certificate"}
        /\ BLen(last.data) < last.k.byte_size - EncryptOverhead(last.op))
       => (last.exc = "none" /\ ret # NoBytes /\ ret # last.data)
    /\ (/\ held.op \in EncryptOps
        /\ ~held.mut
        /\ last.op = DecryptFor(held.op)
        /\ last.arg = held.val
        /\ last.pre.cls = "PrivateKey")
       => (last.exc = "none" /\ ret = held.data)

\* an OAEP ciphertext made through the certificate, decrypted
C8_Witness ==
    /\ held.op = "rsa_oaep_encrypt"
    /\ ~held.mut
    /\ last.op = "rsa_oaep_decrypt"
    /\ last.arg = held.val
    /\ last.pre.cls = "PrivateKey"
    /\ handles[2].cls = "Certificate"
    /\ ret = held.data
    /\ ret # NoBytes

\* C9: a valid signature with one byte changed ends the matching verify
\* entry point in SignatureError, not in OSError.
C9_TamperedSignatureIsInvalid ==
    (VerifiesHeld /\ held.mut) => last.exc = "SignatureError"

\* the raw encrypt-direction pipeline of the last rsa_pss_verify call was
\* constructed
PssPipelineStarted ==
    \E n \in 1..Len(last.calls) : last.calls[n].fn = "SecEncryptTransformCreate"

\* ... and ran to the end without a native error
PssPipelineSucceeded ==
    \E n \in 1..Len(last.calls) : last.calls[n].fn = "cf_data_to_bytes"

\* the verdict of the padding primitive on the block the pipeline recovers
\* from the signature
PssPrimitiveVerdict ==
    LET o == KeyObj(handles, last.t)
    IN  verify_pss_padding(last.hash, pss_verify_hash_length(last.hash), KeyBitSize(o),
                           last.data,
                           NativeEncryptOut(NativeKey(heap, o.ref), "kSecPaddingNoneKey",
                                            last.arg))

\* the primitive was called, accepted its arguments and returned a verdict
PssPrimitiveAnswered ==
    /\ Len(last.prims) = 1
    /\ last.prims[1].fn = "verify_pss_padding"
    /\ ~PssRejects(last.hash, last.prims[1].len)

\* C21: rsa_pss_verify ends in SignatureError exactly when the raw encrypt
\* pipeline over the signature succeeded and the padding primitive returned
\* false for the recovered block; a native failure in the pipeline ends in
\* OSError without a call of the primitive; a true verdict ends in no
\* failure.
C21_PssVerdictIsSignatureInvalid ==
    last.op = "rsa_pss_verify" =>
        /\ last.exc = "SignatureError" <=>
                (PssPipelineSucceeded /\ PssPrimitiveAnswered /\ ~PssPrimitiveVerdict)
        /\ (PssPipelineStarted /\ ~PssPipelineSucceeded) =>
                (last.exc = "OSError" /\ last.prims = <<>>)
        /\ (PssPipelineSucceeded /\ PssPrimitiveAnswered /\ PssPrimitiveVerdict) =>
                last.exc = "none"

\* a PSS signature with one byte changed, judged invalid by the primitive
C21_Witness ==
    /\ last.op = "rsa_pss_verify" /\ held.op = "rsa_pss_sign" /\ held.mut
    /\ PssPipelineSucceeded /\ PssPrimitiveAnswered /\ ~PssPrimitiveVerdict
    /\ last.exc = "SignatureError"

(***************************************************************************)
(* Properties of SpecLoad                                                  *)
(***************************************************************************)
\* the loader handed a structured key to _load_key
ReachedLoadKey ==
    \/ last.op = "load_pkcs12" /\ last.ty = "PrivateKeyInfo" /\ last.src \in {"bytes", "str"}
    \/ last.op = "load_private_key" /\ last.ty = "PrivateKeyInfo"
                                     /\ last.src \in {"asn1", "bytes", "str"}
    \/ last.op = "load_public_key" /\ last.ty = "PublicKeyInfo"
                                    /\ last.src \in {"asn1", "bytes", "str"}

\* the structures the Algorithm Policy refuses
Refused(k) ==
    \/ k.algorithm = "ec" /\ ~(k.curve_type = "named"
                               /\ k.curve \in {"secp256r1", "secp384r1", "secp521r1"})
    \/ k.algorithm = "dsa" /\ k.hash_algo = "sha2"

KeyConstructions == Count("SecKeyCreateFromData", [n \in 1..Len(last.calls) |-> last.calls[n].fn])

\* C10: _load_key refuses an EC key on a curve other than the three named
\* ones and a DSA key whose hash_algo is sha2, before any native call; for
\* every other key it calls the native key construction exactly once.
C10_PolicyBeforeKeyConstruction ==
    ReachedLoadKey =>
        IF Refused(last.k)
        THEN last.exc = "PrivateKeyError" /\ last.calls = <<>> /\ last.created = <<>>
        ELSE KeyConstructions = 1

\* a refused DSA key, with nothing built
C10_Witness ==
    /\ ReachedLoadKey
    /\ last.op = "load_private_key"
    /\ last.k = DsaSha2Key
    /\ last.exc = "PrivateKeyError"
    /\ last.calls = <<>>
    /\ handles = <<>>

====
